---- MODULE Spec2Model ----
(***************************************************************************)
(* A model of RuRay's transparent TUN proxy engine (src-tauri/src/tun.rs)  *)
(* and of the proxy-process supervisor (ruray/src-tauri/src/proxy.rs).     *)
(*                                                                         *)
(* The engine exists only in its Windows build: set_system_route returns   *)
(* an error on every other platform and start() calls init_wintun_path as  *)
(* a method, which only the Windows variant is.  The model is that build.  *)
(*                                                                         *)
(* The operating system's route table is a set of entries [dest, gw].      *)
(* route.exe is modelled by what it does: "route add" adds an entry and    *)
(* fails when the same destination/gateway entry exists; "route delete     *)
(* <dest> mask <mask>" without a gateway removes every entry of that       *)
(* destination and mask.  route.exe can always be started: a command that  *)
(* fails is one that exits with a non-zero status.                         *)
(***************************************************************************)
EXTENDS Integers, Sequences, FiniteSets, TLC

VARIABLES
    route_table,      \* the OS route table: a set of [dest, gw]
    original_routes,  \* TunManager.original_routes (the backup)
    config,           \* TunManager.config
    route_pre,        \* history: the route table when the latest enable began
    route_last,       \* history: the latest route operation and its result
    route_ops,        \* history: how many route operations have run
    is_admin,         \* what is_admin() answers on this host
    running,          \* TunManager.running
    status,           \* TunManager.status
    device,           \* TunManager.device: 0 is None, n is the n-th device
    dev_holder,       \* the task whose blocking read holds the device mutex
    packet_handler,   \* TunManager.packet_handler: 0 is None, n a task
    fake_ip_manager,  \* TunManager.fake_ip_manager
    connections,      \* TunManager.connections: flow key -> proxy stream
    tasks,            \* the packet-processing tasks ever spawned
    streams,          \* the proxy streams ever opened, with their readers
    cmd,              \* the command in progress on the command thread
    last,             \* history: the latest call that returned
    starts,           \* history: how many start calls were made
    reads,            \* history: how many packets were read from the device
    traffic,          \* the packets the host's applications send
    last_dispatch,    \* history: what the latest handled packet led to
    procs,            \* the engine processes that are alive
    pm,               \* the proxy commands in flight and their ProxyManager
    spawned,          \* history: how many engine processes were spawned
    probe             \* history: the latest application of a pure function

routeVars == <<route_table, original_routes, route_pre, route_last, route_ops>>

tunVars == <<running, status, device, dev_holder, packet_handler,
             fake_ip_manager, connections, tasks, streams, cmd, last, starts,
             reads, traffic, last_dispatch>>

proxyVars == <<procs, pm, spawned>>

\* What no action of the engine or of the supervisor changes.
fixedVars == <<is_admin, probe>>

vars == <<route_table, original_routes, config, route_pre, route_last,
          route_ops, is_admin, running, status, device, dev_holder,
          packet_handler, fake_ip_manager, connections, tasks, streams, cmd,
          last, starts, reads, traffic, last_dispatch, procs, pm, spawned,
          probe>>

(***************************************************************************)
(* Routes                                                                  *)
(***************************************************************************)

\* The gateway of the virtual interface: config.address.
TunGateway == "tun"

\* The fallback set_system_route uses when no default route line is found.
FallbackGateway == "192.168.1.1"

DefaultDest == "0.0.0.0/0"

\* proxy_servers: the host routes pinned through the original gateway.
ProxyServers == {"127.0.0.1/32", "8.8.8.8/32", "8.8.4.4/32"}

\* split_routes: the two half-space routes.
SplitRoutes == {"0.0.0.0/1", "128.0.0.0/1"}

\* strict_routes: the anti-leak routes of strict mode.
StrictRoutes == {"8.8.8.8/32", "8.8.4.4/32", "1.1.1.1/32", "1.0.0.1/32",
                 "224.0.0.0/4", "255.255.255.255/32"}

Route(d, g) == [dest |-> d, gw |-> g]

\* "route add d g": the entry is added unless it exists or the command fails.
RouteAdd(t, d, g, envOk) ==
    IF envOk /\ Route(d, g) \notin t
    THEN [rt |-> t \cup {Route(d, g)}, ok |-> TRUE, exists |-> FALSE]
    ELSE [rt |-> t, ok |-> FALSE, exists |-> Route(d, g) \in t]

\* "route delete d mask m": every entry of that destination goes.
RouteDelete(t, d) == {r \in t : r.dest # d}

RouteDeleteAll(t, ds) == {r \in t : r.dest \notin ds}

\* A run of adds whose failures are only logged.
RouteAddAll(t, ds, g, failed) == t \cup {Route(d, g) : d \in ds \ failed}

\* backup_routes keeps the lines that start with 0.0.0.0 or 128.0.0.0.
BackupRoutesOf(t) == {r \in t : r.dest \in {DefaultDest} \cup SplitRoutes}

\* The gateway column of a line of "route print 0.0.0.0" that starts with
\* 0.0.0.0, or the fallback when there is none.
DefaultGateways(t) ==
    LET gs == {r.gw : r \in {x \in t : x.dest \in {DefaultDest, "0.0.0.0/1"}}}
    IN IF gs = {} THEN {FallbackGateway} ELSE gs

\* The commands of the enable branch an injected fault can make fail.
EnableFaults == {"none", "host", "default", "split_lo", "split_hi", "strict"}

\* set_system_route(true) from the backup on; gw is the detected gateway.
\* The result is the table, the backup and whether Ok was returned.
EnableRoutes(t, strict, gw, fault) ==
    LET t1 == RouteAddAll(t, ProxyServers, gw,
                          IF fault = "host" THEN {"8.8.8.8/32"} ELSE {})
        a2 == RouteAdd(t1, DefaultDest, TunGateway, fault # "default")
        r2 == IF a2.ok THEN a2
              ELSE IF a2.exists
                   THEN RouteAdd(RouteDelete(t1, DefaultDest), DefaultDest,
                                 TunGateway, fault # "default")
                   ELSE a2
        a3 == RouteAdd(r2.rt, "0.0.0.0/1", TunGateway, fault # "split_lo")
        a4 == RouteAdd(a3.rt, "128.0.0.0/1", TunGateway, fault # "split_hi")
        t5 == IF strict
              THEN RouteAddAll(a4.rt, StrictRoutes, TunGateway,
                               IF fault = "strict" THEN {"1.1.1.1/32"} ELSE {})
              ELSE a4.rt
        b  == BackupRoutesOf(t)
    IN  IF ~r2.ok THEN [rt |-> r2.rt, backup |-> b, ok |-> FALSE]
        ELSE IF ~a3.ok THEN [rt |-> a3.rt, backup |-> b, ok |-> FALSE]
        ELSE IF ~a4.ok THEN [rt |-> a4.rt, backup |-> b, ok |-> FALSE]
        ELSE [rt |-> t5, backup |-> b, ok |-> TRUE]

\* restore_routes: nothing with an empty backup; otherwise the split routes
\* are deleted, every backed-up line is added again and the backup is cleared.
RestoreRoutes(t, backup) ==
    IF backup = {} THEN [rt |-> t, backup |-> backup]
    ELSE [rt |-> RouteDeleteAll(t, SplitRoutes) \cup backup, backup |-> {}]

\* set_system_route(false).
DisableRoutes(t, backup, strict) ==
    LET t1 == RouteDeleteAll(t, ProxyServers)
        t2 == RouteDeleteAll(t1, SplitRoutes)
        t3 == IF strict THEN RouteDeleteAll(t2, StrictRoutes) ELSE t2
        t4 == RouteDelete(t3, DefaultDest)
    IN  RestoreRoutes(t4, backup)

\* The gateway of the host's own default route.
OrigGateway == "gwA"

\* Entries that point at the virtual interface.
TunRoutes(t) == {r \in t : r.gw = TunGateway}

(***************************************************************************)
(* Classification (FlowClassifier)                                         *)
(***************************************************************************)

\* Addresses are their four octets.
is_loopback(ip) == ip[1] = 127

is_private(ip) ==
    \/ ip[1] = 10
    \/ ip[1] = 172 /\ ip[2] >= 16 /\ ip[2] <= 31
    \/ ip[1] = 192 /\ ip[2] = 168

is_link_local(ip) == ip[1] = 169 /\ ip[2] = 254

is_multicast(ip) == ip[1] >= 224 /\ ip[1] <= 239

is_broadcast(ip) == ip = <<255, 255, 255, 255>>

is_reserved_ip(ip) ==
    \/ ip[1] = 0
    \/ ip[1] = 127
    \/ ip[1] = 169 /\ ip[2] = 254
    \/ ip[1] >= 224 /\ ip[1] <= 239
    \/ ip[1] >= 240 /\ ip[1] <= 255

is_china_ip(ip) ==
    \/ ip[1] \in {58, 59, 60, 61, 112, 113, 114, 115, 116, 117, 118, 119}
    \/ ip[1] \in {123, 124, 125, 126}
    \/ ip[1] = 111
    \/ ip[1] = 202 /\ ip[2] >= 112 /\ ip[2] <= 120
    \/ ip[1] \in {121, 122}

is_system_port(port) ==
    port \in {53, 67, 68, 123, 161, 162, 137, 138, 139, 389, 636, 88, 464,
              135, 445, 5353, 5355, 3702}

\* should_proxy; proxyRunning is what is_proxy_running() answers.
should_proxy(dst_ip, dst_port, proxyRunning) ==
    IF is_loopback(dst_ip) THEN FALSE
    ELSE IF is_private(dst_ip) THEN FALSE
    ELSE IF is_link_local(dst_ip) THEN FALSE
    ELSE IF is_multicast(dst_ip) THEN FALSE
    ELSE IF is_broadcast(dst_ip) THEN FALSE
    ELSE IF is_reserved_ip(dst_ip) THEN FALSE
    ELSE IF is_china_ip(dst_ip) THEN FALSE
    ELSE IF is_system_port(dst_port) THEN FALSE
    ELSE IF ~proxyRunning THEN FALSE
    ELSE TRUE

\* Addresses compare as the u32 they are.
IpLess(a, b) ==
    \/ a[1] < b[1]
    \/ a[1] = b[1] /\ a[2] < b[2]
    \/ a[1] = b[1] /\ a[2] = b[2] /\ a[3] < b[3]
    \/ a[1] = b[1] /\ a[2] = b[2] /\ a[3] = b[3] /\ a[4] < b[4]

IpLeq(a, b) == a = b \/ IpLess(a, b)

\* The address after ip: u32 + 1.
IpNext(ip) ==
    IF ip[4] < 255 THEN <<ip[1], ip[2], ip[3], ip[4] + 1>>
    ELSE IF ip[3] < 255 THEN <<ip[1], ip[2], ip[3] + 1, 0>>
    ELSE IF ip[2] < 255 THEN <<ip[1], ip[2] + 1, 0, 0>>
    ELSE <<(ip[1] + 1) % 256, 0, 0, 0>>

\* FakeIpManager::is_fake_ip.
is_fake_ip(fm, ip) == IpLeq(fm.start_ip, ip) /\ IpLeq(ip, fm.end_ip)

(***************************************************************************)
(* Configurations, packets and flows                                       *)
(***************************************************************************)

\* The number of start calls explored.
MaxStarts == 2

\* The number of packets read from the device in one behaviour.
MaxReads == 3

\* The number of concurrent source ports, hence of proxied flows to one host.
MaxFlows == 2

\* The number of proxy streams opened in one behaviour.
MaxStreams == 2

PublicIp == <<93, 184, 216, 34>>

DnsIp == <<8, 8, 8, 8>>

\* A pool of two addresses, so that the cursor reaches its end.
FakePoolStart == <<198, 18, 0, 1>>

FakePoolEnd == <<198, 18, 0, 2>>

\* An IpAddr::V6 value: its text does not parse as an Ipv4Addr.
V6Addr == <<0, 0, 0, 0, 0, 0, 0, 1>>

IsV4(ip) == Len(ip) = 4

\* TunConfig::default(), reduced to the fields the engine branches on.
DefaultConfig ==
    [strict_route |-> TRUE, dns_hijack |-> FALSE, fake_ip |-> FALSE,
     fake_ip_start |-> FakePoolStart, fake_ip_end |-> FakePoolEnd]

\* The configurations start is called with: the default one, DNS hijacking
\* alone, FakeIP with DNS hijacking, and FakeIP with a pool given in IPv6.
TunConfigs ==
    {DefaultConfig,
     [DefaultConfig EXCEPT !.strict_route = FALSE, !.dns_hijack = TRUE],
     [DefaultConfig EXCEPT !.strict_route = FALSE, !.dns_hijack = TRUE,
                           !.fake_ip = TRUE],
     [DefaultConfig EXCEPT !.strict_route = FALSE, !.fake_ip = TRUE,
                           !.fake_ip_start = V6Addr]}

Domains == {"example.com", "a.com"}

\* A decoded packet; domain is what parse_dns_query finds in the payload.
Packet(proto, sport, dst, dport, domain) ==
    [proto |-> proto, sport |-> sport, dst |-> dst, dport |-> dport,
     domain |-> domain]

NoPacket == Packet("none", 0, <<0, 0, 0, 0>>, 0, "")

Packets ==
    {Packet("tcp", sp, PublicIp, 80, "") : sp \in 1..MaxFlows}
    \cup {Packet("tcp", 1, FakePoolStart, 80, ""),
          Packet("udp", 1, FakePoolStart, 443, "")}
    \cup {Packet("udp", 1, DnsIp, 53, d) : d \in Domains}

\* A HashMap is the set of its <<key, value>> entries.
MapHas(m, k) == \E e \in m : e[1] = k

MapGet(m, k) == (CHOOSE e \in m : e[1] = k)[2]

MapRemove(m, k) == {e \in m : e[1] # k}

MapInsert(m, k, v) == MapRemove(m, k) \cup {<<k, v>>}

\* The proxy stream of a flow's entry; 0 without an entry or a stream.
ProxyStream(conns, k) == IF MapHas(conns, k) THEN MapGet(conns, k) ELSE 0

\* conn_key: "src:sport->dst:dport"; the source address is the interface's.
ConnKey(p) == <<p.sport, p.dst, p.dport>>

\* FakeIpManager::new.
NewFakeIpManager(start, end) ==
    [start_ip |-> start, end_ip |-> end, next_ip |-> start,
     domain_to_fake |-> {}, fake_to_domain |-> {}, fake_to_real |-> {}]

\* The allocation of handle_dns_hijack without its lookup of the domain:
\* every query takes the cursor's address.
hijack_allocate_no_lookup(fm, domain) ==
    LET ip == fm.next_ip
    IN  [fm |-> [fm EXCEPT
                   !.next_ip = IF ip = fm.end_ip THEN fm.start_ip
                               ELSE IpNext(ip),
                   !.domain_to_fake = MapInsert(@, domain, ip),
                   !.fake_to_domain = MapInsert(@, ip, domain)],
         ip |-> ip]

\* The allocation handle_dns_hijack does itself: the domain's address when it
\* has one, otherwise the cursor's, and the cursor returns to the start of
\* the pool after the end.
hijack_allocate(fm, domain) ==
    IF MapHas(fm.domain_to_fake, domain)
    THEN [fm |-> fm, ip |-> MapGet(fm.domain_to_fake, domain)]
    ELSE LET ip == fm.next_ip
         IN  [fm |-> [fm EXCEPT
                        !.next_ip = IF ip = fm.end_ip THEN fm.start_ip
                                    ELSE IpNext(ip),
                        !.domain_to_fake = MapInsert(@, domain, ip),
                        !.fake_to_domain = MapInsert(@, ip, domain)],
              ip |-> ip]

\* The FakeIP lookup of the packet handlers: the domain of a destination in
\* the pool, "" when there is none.  fake_to_real is never written, so the
\* target address stays the destination.
target_domain(cfg, fms, dst) ==
    IF cfg.fake_ip /\ fms # <<>> /\ is_fake_ip(fms[1], dst)
       /\ MapHas(fms[1].fake_to_domain, dst)
    THEN MapGet(fms[1].fake_to_domain, dst)
    ELSE ""

\* The target address of the packet handlers: the real address recorded
\* for a FakeIP destination with a known domain, otherwise the destination.
\* Only set_real_ip writes fake_to_real, and nothing calls it.
target_ip(cfg, fms, dst) ==
    IF target_domain(cfg, fms, dst) # ""
       /\ MapHas(fms[1].fake_to_real, dst)
    THEN MapGet(fms[1].fake_to_real, dst)
    ELSE dst

\* The should_proxy local of handle_tcp/udp_packet_with_response.
packet_should_proxy(cfg, fms, p, proxyRunning) ==
    \/ cfg.fake_ip /\ target_domain(cfg, fms, p.dst) # ""
    \/ should_proxy(p.dst, p.dport, proxyRunning)

\* The DNS branch of handle_udp_packet_with_response.
packet_is_hijacked(cfg, p) ==
    p.proto = "udp" /\ p.dport = 53 /\ cfg.dns_hijack

(***************************************************************************)
(* The engine: TunManager                                                  *)
(***************************************************************************)

\* A packet-processing task: where its loop stands (st), where the closure
\* it handed to spawn_blocking stands (blk) and the packet it is handling.
NewTask == [st |-> "test", blk |-> "idle", pkt |-> NoPacket]

LiveTasks == {t \in 1..Len(tasks) : tasks[t].st \notin {"exited", "aborted"}}

\* The response readers that are still running.
LiveRelays == {s \in 1..Len(streams) : streams[s].reader # "done"}

\* JoinHandle::abort on the taken handle: the task ends at its next await;
\* a closure already given to spawn_blocking runs on.
AbortHandler(ts, h) ==
    IF h = 0 \/ ts[h].st = "exited" THEN ts
    ELSE [ts EXCEPT ![h].st = "aborted", ![h].pkt = NoPacket]

IdleCmd ==
    [pc |-> "idle", op |-> "none", cfg |-> DefaultConfig,
     was_running |-> FALSE, relays |-> {}]

\* What a call that returned is remembered by.
Returned(op, ok, created, was_running, task, relays) ==
    [op |-> op, ok |-> ok, created |-> created, was_running |-> was_running,
     task |-> task, relays |-> relays, err |-> "none"]

NoDispatch ==
    [pkt |-> NoPacket, path |-> "none", healthy |-> FALSE, ok |-> TRUE,
     sent |-> "none", fail |-> "none", attempts |-> {}]

\* The first half of stop() and of stop_sync(): the flag and the handle.
StopFlagAndHandler ==
    /\ running' = FALSE
    /\ tasks' = AbortHandler(tasks, packet_handler)
    /\ packet_handler' = 0

\* The checks of start() without the one of the privileges.
start_checks_no_privilege(admin, wintunOk) ==
    IF ~wintunOk THEN "wintun" ELSE "none"

\* The checks start() makes before it touches anything: is_admin(), then
\* init_wintun_path.  The result is the error returned, "none" without one.
start_checks(admin, wintunOk) ==
    IF ~admin THEN "privilege"
    ELSE IF ~wintunOk THEN "wintun" ELSE "none"

\* start(), up to the stop() of a running session.
CmdStart ==
    /\ cmd.pc = "idle"
    /\ starts < MaxStarts
    /\ starts' = starts + 1
    /\ \E cfg \in TunConfigs, wintunOk \in BOOLEAN :
        IF start_checks(is_admin, wintunOk) # "none"
        THEN /\ last' = [Returned("start", FALSE, FALSE, running, 0, {})
                           EXCEPT !.err = start_checks(is_admin, wintunOk)]
             /\ UNCHANGED <<running, tasks, packet_handler, cmd>>
        ELSE IF running
        THEN /\ StopFlagAndHandler
             /\ cmd' = [pc |-> "stop_dev", op |-> "start", cfg |-> cfg,
                        was_running |-> TRUE, relays |-> LiveRelays]
             /\ UNCHANGED last
        ELSE /\ cmd' = [pc |-> "start_create", op |-> "start", cfg |-> cfg,
                        was_running |-> FALSE, relays |-> LiveRelays]
             /\ UNCHANGED <<running, tasks, packet_handler, last>>
    /\ UNCHANGED <<routeVars, config, fixedVars, proxyVars, status, device,
                   dev_holder, fake_ip_manager, connections, streams, reads,
                   traffic, last_dispatch>>

\* What start() can meet after the running check.
StartFaults ==
    {"none", "create", "configure_ip"} \cup (EnableFaults \ {"none"})

\* start(), from the configuration write to the status update.
StartCreate ==
    /\ cmd.pc = "start_create"
    /\ config' = cmd.cfg
    /\ \E fault \in StartFaults, gw \in DefaultGateways(route_table) :
        LET cfg == cmd.cfg
            res == EnableRoutes(route_table, cfg.strict_route, gw,
                                IF fault \in EnableFaults THEN fault
                                ELSE "none")
            parsed == IsV4(cfg.fake_ip_start) /\ IsV4(cfg.fake_ip_end)
            failed(created) ==
                /\ last' = Returned("start", FALSE, created, cmd.was_running,
                                    0, cmd.relays)
                /\ cmd' = IdleCmd
        IN  IF fault = "create"
            THEN /\ failed(FALSE)
                 /\ UNCHANGED <<routeVars, device, fake_ip_manager, tasks,
                                packet_handler, status>>
            ELSE /\ dev_holder = 0
                 /\ device' = starts
                 /\ IF fault = "configure_ip" \/ (cfg.fake_ip /\ ~parsed)
                    THEN /\ failed(TRUE)
                         /\ UNCHANGED <<routeVars, fake_ip_manager, tasks,
                                        packet_handler, status>>
                    ELSE /\ fake_ip_manager' =
                                IF cfg.fake_ip
                                THEN <<NewFakeIpManager(cfg.fake_ip_start,
                                                        cfg.fake_ip_end)>>
                                ELSE fake_ip_manager
                         /\ route_table' = res.rt
                         /\ original_routes' = res.backup
                         /\ route_pre' = route_table
                         /\ route_last' = [op |-> "enable", ok |-> res.ok]
                         /\ UNCHANGED route_ops
                         /\ IF ~res.ok
                            THEN /\ failed(TRUE)
                                 /\ UNCHANGED <<tasks, packet_handler, status>>
                            ELSE /\ tasks' = Append(tasks, NewTask)
                                 /\ packet_handler' = Len(tasks) + 1
                                 /\ status' = [is_running |-> TRUE]
                                 /\ cmd' = [cmd EXCEPT !.pc = "start_flag"]
                                 /\ UNCHANGED last
    /\ UNCHANGED <<fixedVars, proxyVars, running, dev_holder, connections,
                   streams, starts, reads, traffic, last_dispatch>>

\* start(): running.store(true) and the return.
StartFlag ==
    /\ cmd.pc = "start_flag"
    /\ running' = TRUE
    /\ last' = Returned("start", TRUE, TRUE, cmd.was_running, packet_handler,
                        cmd.relays)
    /\ cmd' = IdleCmd
    /\ UNCHANGED <<routeVars, config, fixedVars, proxyVars, status, device,
                   dev_holder, packet_handler, fake_ip_manager, connections,
                   tasks, streams, starts, reads, traffic, last_dispatch>>

\* stop(), up to the device lock.
CmdStop ==
    /\ cmd.pc = "idle"
    /\ IF ~running
       THEN /\ last' = Returned("stop", TRUE, FALSE, FALSE, 0, LiveRelays)
            /\ UNCHANGED <<running, tasks, packet_handler, cmd>>
       ELSE /\ StopFlagAndHandler
            /\ cmd' = [pc |-> "stop_dev", op |-> "stop", cfg |-> config,
                       was_running |-> TRUE, relays |-> LiveRelays]
            /\ UNCHANGED last
    /\ UNCHANGED <<routeVars, config, fixedVars, proxyVars, status, device,
                   dev_holder, fake_ip_manager, connections, streams, starts,
                   reads, traffic, last_dispatch>>

\* stop(), from the device lock on: the slot is emptied, the routes are
\* disabled and restored, the status is updated.  The lock is a std Mutex: it
\* is had only when no blocking read holds it.
StopDevice ==
    LET res == DisableRoutes(route_table, original_routes, config.strict_route)
    IN  /\ cmd.pc = "stop_dev"
        /\ dev_holder = 0
        /\ device' = 0
        /\ route_table' = res.rt
        /\ original_routes' = res.backup
        /\ route_last' = [op |-> "disable", ok |-> TRUE]
        /\ status' = [status EXCEPT !.is_running = FALSE]
        /\ IF cmd.op = "start"
           THEN /\ cmd' = [cmd EXCEPT !.pc = "start_create"]
                /\ UNCHANGED last
           ELSE /\ cmd' = IdleCmd
                /\ last' = Returned(cmd.op, TRUE, FALSE, TRUE, 0, cmd.relays)
        /\ UNCHANGED <<route_pre, route_ops, config, fixedVars, proxyVars,
                       running, dev_holder, packet_handler, fake_ip_manager,
                       connections, tasks, streams, starts, reads, traffic,
                       last_dispatch>>

\* stop(), from the device lock on, when the route command cannot be run:
\* the slot is emptied, set_system_route(false) returns the error of the
\* first command it needs, and stop() returns it before the status update.
\* A start() that was stopping the running session returns the same error.
StopRouteFails ==
    /\ cmd.pc = "stop_dev"
    /\ dev_holder = 0
    /\ device' = 0
    /\ route_last' = [op |-> "disable", ok |-> FALSE]
    /\ cmd' = IdleCmd
    /\ last' = [Returned(cmd.op, FALSE, FALSE, TRUE, 0, cmd.relays)
                  EXCEPT !.err = "route"]
    /\ UNCHANGED <<route_table, original_routes, route_pre, route_ops,
                   config, fixedVars, proxyVars, running, status,
                   dev_holder, packet_handler, fake_ip_manager, connections,
                   tasks, streams, starts, reads, traffic, last_dispatch>>

\* stop_sync(), up to the device lock.
CmdStopSync ==
    /\ cmd.pc = "idle"
    /\ IF ~running
       THEN /\ last' = Returned("stop_sync", TRUE, FALSE, FALSE, 0, LiveRelays)
            /\ UNCHANGED <<running, tasks, packet_handler, cmd>>
       ELSE /\ StopFlagAndHandler
            /\ cmd' = [pc |-> "sync_dev", op |-> "stop_sync", cfg |-> config,
                       was_running |-> TRUE, relays |-> LiveRelays]
            /\ UNCHANGED last
    /\ UNCHANGED <<routeVars, config, fixedVars, proxyVars, status, device,
                   dev_holder, fake_ip_manager, connections, streams, starts,
                   reads, traffic, last_dispatch>>

\* stop_sync(), from the device lock on: the slot and the status, no route.
SyncDevice ==
    /\ cmd.pc = "sync_dev"
    /\ dev_holder = 0
    /\ device' = 0
    /\ status' = [status EXCEPT !.is_running = FALSE]
    /\ cmd' = IdleCmd
    /\ last' = Returned(cmd.op, TRUE, FALSE, TRUE, 0, cmd.relays)
    /\ UNCHANGED <<routeVars, config, fixedVars, proxyVars, running,
                   dev_holder, packet_handler, fake_ip_manager, connections,
                   tasks, streams, starts, reads, traffic, last_dispatch>>

\* The window's CloseRequested handler: ProxyManager.stop() when the engine
\* process runs, which stops a running TUN session with stop(); then
\* stop_sync() when the session is still running.
WindowClose ==
    /\ cmd.pc = "idle"
    /\ \E process_running \in BOOLEAN :
        /\ IF ~running
           THEN /\ last' = Returned("close", TRUE, FALSE, FALSE, 0, LiveRelays)
                /\ UNCHANGED <<running, tasks, packet_handler, cmd>>
           ELSE /\ StopFlagAndHandler
                /\ cmd' = [pc |-> IF process_running THEN "stop_dev"
                                  ELSE "sync_dev",
                           op |-> "close", cfg |-> config,
                           was_running |-> TRUE, relays |-> LiveRelays]
                /\ UNCHANGED last
    /\ UNCHANGED <<routeVars, config, fixedVars, proxyVars, status, device,
                   dev_holder, fake_ip_manager, connections, streams, starts,
                   reads, traffic, last_dispatch>>

(***************************************************************************)
(* The engine: the packet-processing task                                  *)
(***************************************************************************)

\* while running.load(): the loop ends when the flag is false or the slot is
\* empty, and otherwise hands the read to spawn_blocking.
LoopTest(t) ==
    /\ tasks[t].st = "test"
    /\ IF ~running
       THEN tasks' = [tasks EXCEPT ![t].st = "exited"]
       ELSE /\ dev_holder = 0
            /\ tasks' = IF device = 0
                        THEN [tasks EXCEPT ![t].st = "exited"]
                        ELSE [tasks EXCEPT ![t].st = "blocking",
                                           ![t].blk = "want_lock"]
    /\ UNCHANGED <<routeVars, config, fixedVars, proxyVars, running, status,
                   device, dev_holder, packet_handler, fake_ip_manager,
                   connections, streams, cmd, last, starts, reads, traffic,
                   last_dispatch>>

\* The closure locks the device and starts its read; with an empty slot it
\* returns None.
BlockingLock(t) ==
    /\ tasks[t].blk = "want_lock"
    /\ dev_holder = 0
    /\ IF device # 0
       THEN /\ dev_holder' = t
            /\ tasks' = [tasks EXCEPT ![t].blk = "reading"]
       ELSE /\ dev_holder' = 0
            /\ tasks' = [tasks EXCEPT
                           ![t].blk = "idle",
                           ![t].st = IF @ = "blocking" THEN "test" ELSE @]
    /\ UNCHANGED <<routeVars, config, fixedVars, proxyVars, running, status,
                   device, packet_handler, fake_ip_manager, connections,
                   streams, cmd, last, starts, reads, traffic, last_dispatch>>

\* The read returns: a packet, or nothing (an error).  The lock is released;
\* an aborted task's result is discarded.
ReadReturns(t) ==
    /\ tasks[t].blk = "reading"
    /\ dev_holder' = 0
    /\ \E p \in {q \in traffic : reads < MaxReads} \cup {NoPacket} :
        /\ tasks' = [tasks EXCEPT
                       ![t].blk = "idle",
                       ![t].st = IF @ # "blocking" THEN @
                                 ELSE IF p = NoPacket THEN "test"
                                 ELSE "handling",
                       ![t].pkt = IF tasks[t].st = "blocking" THEN p ELSE @]
        /\ reads' = IF p = NoPacket THEN reads ELSE reads + 1
    /\ UNCHANGED <<routeVars, config, fixedVars, proxyVars, running, status,
                   device, packet_handler, fake_ip_manager, connections,
                   streams, cmd, last, starts, traffic, last_dispatch>>

\* The task is back at the head of its loop.
Handled(t) == [tasks EXCEPT ![t].st = "test", ![t].pkt = NoPacket]

\* What handling a packet led to; healthy is what is_proxy_running()
\* answered when the packet was classified.
Dispatch(p, path, healthy, ok, sent, fail, attempts) ==
    [pkt |-> p, path |-> path, healthy |-> healthy, ok |-> ok, sent |-> sent,
     fail |-> fail, attempts |-> attempts]

\* forward_direct_with_response and the two UDP forwarders: the packet is
\* logged and Ok is returned; no stream is opened and nothing is sent.
HandleDirect(t) ==
    LET p == tasks[t].pkt
    IN  /\ tasks[t].st = "handling"
        /\ ~packet_is_hijacked(config, p)
        /\ \E healthy \in BOOLEAN :
            LET proxied == packet_should_proxy(config, fake_ip_manager, p,
                                               healthy)
            IN  /\ p.proto = "udp" \/ ~proxied
                /\ last_dispatch' =
                     Dispatch(p, IF proxied THEN "proxy" ELSE "direct",
                              healthy, TRUE, "none", "none", {})
        /\ tasks' = Handled(t)
        /\ UNCHANGED <<routeVars, config, fixedVars, proxyVars, running,
                       status, device, dev_holder, packet_handler,
                       fake_ip_manager, connections, streams, cmd, last,
                       starts, reads, traffic>>

\* What the connection to the proxy endpoint can come to.
ProxyOutcomes == {"ok", "connect", "handshake", "connect_request", "write"}

\* handle_tcp_proxy_connection from "establish a new SOCKS5 connection" on:
\* every failure is returned; a stream that was opened is stored in the
\* flow's entry when there is one, and its reader is spawned.
ProxyConnect(t, p, conns, healthy, outcome) ==
    /\ tasks' = Handled(t)
    /\ IF outcome = "ok"
       THEN /\ Len(streams) < MaxStreams
            /\ streams' = Append(streams, [flow |-> ConnKey(p),
                                           reader |-> "reading",
                                           seq |-> 0])
            /\ connections' =
                 IF MapHas(conns, ConnKey(p))
                 THEN MapInsert(conns, ConnKey(p), Len(streams) + 1)
                 ELSE conns
            /\ last_dispatch' = Dispatch(p, "proxy", healthy, TRUE, "proxy",
                                         "none", {"proxy"})
       ELSE /\ connections' = conns
            /\ UNCHANGED streams
            /\ last_dispatch' = Dispatch(p, "proxy", healthy, FALSE, "none",
                                         outcome, {"proxy"})

\* forward_to_proxy_with_response for a flow without a stream: the entry is
\* inserted when absent, then the connection is made.
HandleProxyNew(t) ==
    LET p == tasks[t].pkt
        key == ConnKey(p)
        conns == IF MapHas(connections, key) THEN connections
                 ELSE MapInsert(connections, key, 0)
    IN  /\ tasks[t].st = "handling"
        /\ p.proto = "tcp"
        /\ ProxyStream(connections, key) = 0
        /\ \E healthy \in BOOLEAN, outcome \in ProxyOutcomes :
            /\ packet_should_proxy(config, fake_ip_manager, p, healthy)
            /\ ProxyConnect(t, p, conns, healthy, outcome)
        /\ UNCHANGED <<routeVars, config, fixedVars, proxyVars, running,
                       status, device, dev_holder, packet_handler,
                       fake_ip_manager, cmd, last, starts, reads, traffic>>

\* forward_to_proxy_with_response for a flow with a stream: the stream is
\* locked, which waits for a reader that holds the lock in its read, and
\* written; after a failed write the entry is removed and a new connection
\* is made.
HandleProxyExisting(t) ==
    LET p == tasks[t].pkt
        key == ConnKey(p)
        removed == MapRemove(connections, key)
    IN  /\ tasks[t].st = "handling"
        /\ p.proto = "tcp"
        /\ ProxyStream(connections, key) # 0
        /\ streams[ProxyStream(connections, key)].reader # "reading"
        /\ \E healthy \in BOOLEAN :
            /\ packet_should_proxy(config, fake_ip_manager, p, healthy)
            /\ \/ /\ tasks' = Handled(t)
                  /\ last_dispatch' = Dispatch(p, "proxy", healthy, TRUE,
                                               "proxy", "none", {})
                  /\ UNCHANGED <<connections, streams>>
               \/ \E outcome \in ProxyOutcomes :
                     ProxyConnect(t, p, removed, healthy, outcome)
        /\ UNCHANGED <<routeVars, config, fixedVars, proxyVars, running,
                       status, device, dev_holder, packet_handler,
                       fake_ip_manager, cmd, last, starts, reads, traffic>>

\* handle_dns_hijack: in FakeIP mode a query whose name parses is answered
\* from the pool; any other query is answered with what the configured
\* server replied.  The answer is written by a closure that locks the device.
HandleDns(t) ==
    LET p == tasks[t].pkt
        pooled == config.fake_ip /\ p.domain # "" /\ fake_ip_manager # <<>>
        alloc == hijack_allocate(fake_ip_manager[1], p.domain)
    IN  /\ tasks[t].st = "handling"
        /\ packet_is_hijacked(config, p)
        /\ dev_holder = 0
        /\ tasks' = Handled(t)
        /\ fake_ip_manager' = IF pooled THEN <<alloc.fm>> ELSE fake_ip_manager
        /\ last_dispatch' = Dispatch(p, "dns", FALSE, device # 0, "none",
                                     "none", {})
        /\ UNCHANGED <<routeVars, config, fixedVars, proxyVars, running,
                       status, device, dev_holder, packet_handler, connections,
                       streams, cmd, last, starts, reads, traffic>>

(***************************************************************************)
(* The engine: the response readers (handle_proxy_response)                *)
(***************************************************************************)

\* The read under the stream lock returns data; the lock is dropped.
\* The chunks of a flow that were read and are not written yet; seq is the
\* place of a reader's chunk among them, in the order of the reads.
HeldChunks(flow) ==
    {x \in 1..Len(streams) : streams[x].flow = flow /\ streams[x].seq > 0}

ReaderData(s) ==
    /\ streams[s].reader = "reading"
    /\ streams' = [streams EXCEPT
                     ![s].reader = "got_data",
                     ![s].seq = Cardinality(HeldChunks(streams[s].flow)) + 1]
    /\ UNCHANGED <<routeVars, config, fixedVars, proxyVars, running, status,
                   device, dev_holder, packet_handler, fake_ip_manager,
                   connections, tasks, cmd, last, starts, reads, traffic,
                   last_dispatch>>

\* write_response_packet: with a device the reader loops, without one the
\* write fails and the reader ends.
ReaderWrite(s) ==
    /\ streams[s].reader = "got_data"
    /\ dev_holder = 0
    /\ streams' =
         [x \in 1..Len(streams) |->
            IF x = s
            THEN [streams[s] EXCEPT
                    !.reader = IF device # 0 THEN "reading" ELSE "done",
                    !.seq = 0]
            ELSE IF x \in HeldChunks(streams[s].flow)
                    /\ streams[x].seq > streams[s].seq
            THEN [streams[x] EXCEPT !.seq = @ - 1]
            ELSE streams[x]]
    /\ UNCHANGED <<routeVars, config, fixedVars, proxyVars, running, status,
                   device, dev_holder, packet_handler, fake_ip_manager,
                   connections, tasks, cmd, last, starts, reads, traffic,
                   last_dispatch>>

\* End of stream or a read error: the loop is left, the entry stays.
ReaderEof(s) ==
    /\ streams[s].reader = "reading"
    /\ streams' = [streams EXCEPT ![s].reader = "done"]
    /\ UNCHANGED <<routeVars, config, fixedVars, proxyVars, running, status,
                   device, dev_holder, packet_handler, fake_ip_manager,
                   connections, tasks, cmd, last, starts, reads, traffic,
                   last_dispatch>>

(***************************************************************************)
(* The engine: its environment and its behaviours                          *)
(***************************************************************************)

\* The route table of a host before the engine first runs.
HostRoutes ==
    {Route(DefaultDest, OrigGateway), Route("8.8.8.8/32", OrigGateway)}

\* No pure function was applied yet.
NoProbe == [fn |-> "none"]

\* ProxyManager::new().
NewProxyManager ==
    [process |-> 0, start_time |-> FALSE, current_server |-> FALSE]

\* A command slot with no command running in it.
IdleCommand == [pc |-> "idle", op |-> "none", mgr |-> NewProxyManager]

\* The number of proxy commands that can run at the same time.
MaxCommands == 2

\* The number of engine processes spawned in one behaviour.
MaxSpawns == 3

\* No proxy command was issued yet.
InitProxyManager ==
    /\ procs = {}
    /\ pm = [c \in 1..MaxCommands |-> IdleCommand]
    /\ spawned = 0

\* TunManager::instance() after construction.
InitTun ==
    /\ running = FALSE
    /\ status = [is_running |-> FALSE]
    /\ device = 0
    /\ dev_holder = 0
    /\ packet_handler = 0
    /\ fake_ip_manager = <<>>
    /\ connections = {}
    /\ tasks = <<>>
    /\ streams = <<>>
    /\ cmd = IdleCmd
    /\ last = Returned("none", TRUE, FALSE, FALSE, 0, {})
    /\ starts = 0
    /\ reads = 0
    /\ last_dispatch = NoDispatch

\* The engine after construction, on a host without traffic.
Init ==
    /\ InitTun
    /\ route_table = HostRoutes
    /\ original_routes = {}
    /\ config = DefaultConfig
    /\ route_pre = route_table
    /\ route_last = [op |-> "none", ok |-> TRUE]
    /\ route_ops = 0
    /\ is_admin \in BOOLEAN
    /\ probe = NoProbe
    /\ traffic = {}
    /\ InitProxyManager

Next ==
    \/ CmdStart
    \/ StartCreate
    \/ StartFlag
    \/ CmdStop
    \/ StopDevice
    \/ StopRouteFails
    \/ CmdStopSync
    \/ SyncDevice
    \/ WindowClose
    \/ \E t \in 1..Len(tasks) :
        \/ LoopTest(t)
        \/ BlockingLock(t)
        \/ ReadReturns(t)

Spec == Init /\ [][Next]_vars

(***************************************************************************)
(* A running session and its traffic                                       *)
(***************************************************************************)

\* The engine after start(cfg) returned Ok on HostRoutes, its packet task at
\* the head of the loop, on a host whose applications send pkts.
SessionOf(cfg, pkts) ==
    LET res == EnableRoutes(HostRoutes, cfg.strict_route, OrigGateway, "none")
    IN  /\ config = cfg
        /\ route_table = res.rt
        /\ original_routes = res.backup
        /\ route_pre = HostRoutes
        /\ route_last = [op |-> "enable", ok |-> TRUE]
        /\ route_ops = 0
        /\ is_admin = TRUE
        /\ probe = NoProbe
        /\ running = TRUE
        /\ status = [is_running |-> TRUE]
        /\ device = 1
        /\ dev_holder = 0
        /\ packet_handler = 1
        /\ fake_ip_manager =
             IF cfg.fake_ip
             THEN <<NewFakeIpManager(cfg.fake_ip_start, cfg.fake_ip_end)>>
             ELSE <<>>
        /\ connections = {}
        /\ tasks = <<NewTask>>
        /\ streams = <<>>
        /\ cmd = IdleCmd
        /\ last = Returned("start", TRUE, TRUE, FALSE, 1, {})
        /\ starts = 1
        /\ reads = 0
        /\ traffic = pkts
        /\ last_dispatch = NoDispatch
        /\ InitProxyManager

\* A running session of any configuration start can succeed with.
InitFlow ==
    \E cfg \in {c \in TunConfigs : IsV4(c.fake_ip_start)} :
        SessionOf(cfg, Packets)

NextFlow ==
    \/ CmdStop
    \/ StopDevice
    \/ \E t \in 1..Len(tasks) :
        \/ LoopTest(t)
        \/ BlockingLock(t)
        \/ ReadReturns(t)
        \/ HandleDirect(t)
        \/ HandleProxyNew(t)
        \/ HandleProxyExisting(t)
        \/ HandleDns(t)
    \/ \E s \in 1..Len(streams) :
        \/ ReaderData(s)
        \/ ReaderWrite(s)
        \/ ReaderEof(s)

SpecFlow == InitFlow /\ [][NextFlow]_vars

(***************************************************************************)
(* The proxy-process supervisor: ProxyManager and its commands             *)
(***************************************************************************)

\* The handles of the managers that exist: one per command in flight.
TrackedHandles == {pm[c].mgr.process : c \in DOMAIN pm} \ {0}

\* The command start_proxy begins: the server is looked up and a manager is
\* made with ProxyManager::new(); an unknown server is an error.
start_proxy(c) ==
    /\ pm[c].pc = "idle"
    /\ \E found \in BOOLEAN :
        pm' = IF found
              THEN [pm EXCEPT ![c] = [pc |-> "stop", op |-> "start",
                                      mgr |-> NewProxyManager]]
              ELSE pm
    /\ UNCHANGED <<routeVars, config, fixedVars, tunVars, procs, spawned>>

\* The command stop_proxy begins, with a manager of its own as well.
stop_proxy(c) ==
    /\ pm[c].pc = "idle"
    /\ pm' = [pm EXCEPT ![c] = [pc |-> "stop", op |-> "stop",
                                mgr |-> NewProxyManager]]
    /\ UNCHANGED <<routeVars, config, fixedVars, tunVars, procs, spawned>>

\* ProxyManager::stop with no TUN session running: the manager's own child
\* is taken and killed, every process named xray is killed, start_time and
\* current_server are cleared.  stop_proxy returns after it and its manager
\* is dropped; start goes on.
ProxyStop(c) ==
    /\ pm[c].pc = "stop"
    /\ ~running
    /\ procs' = {}
    /\ pm' = [pm EXCEPT ![c] = IF pm[c].op = "stop" THEN IdleCommand
                               ELSE [pc |-> "spawn", op |-> "start",
                                     mgr |-> NewProxyManager]]
    /\ UNCHANGED <<routeVars, config, fixedVars, tunVars, spawned>>

\* ProxyManager::start after its stop(), with tun_enabled off: a missing
\* executable or a failed spawn is returned; otherwise the child is spawned
\* and recorded with its start time and server.
ProxySpawn(c) ==
    /\ pm[c].pc = "spawn"
    /\ \E outcome \in {"ok", "missing", "spawn_failed"} :
        IF outcome = "ok"
        THEN /\ spawned < MaxSpawns
             /\ spawned' = spawned + 1
             /\ procs' = procs \cup {spawned + 1}
             /\ pm' = [pm EXCEPT ![c] =
                         [pc |-> "grace", op |-> "start",
                          mgr |-> [process |-> spawned + 1,
                                   start_time |-> TRUE,
                                   current_server |-> TRUE]]]
        ELSE /\ pm' = [pm EXCEPT ![c] = IdleCommand]
             /\ UNCHANGED <<procs, spawned>>
    /\ UNCHANGED <<routeVars, config, fixedVars, tunVars>>

\* ProxyManager::start after the 500 ms sleep: try_wait on the child; the
\* command returns either way and its manager is dropped, which ends no
\* process.
ProxyCheck(c) ==
    /\ pm[c].pc = "grace"
    /\ pm' = [pm EXCEPT ![c] = IdleCommand]
    /\ UNCHANGED <<routeVars, config, fixedVars, tunVars, procs, spawned>>

\* An engine process ends by itself.
EngineExit ==
    /\ \E p \in procs : procs' = procs \ {p}
    /\ UNCHANGED <<routeVars, config, fixedVars, tunVars, pm, spawned>>

InitProxy ==
    /\ InitProxyManager
    /\ InitTun
    /\ route_table = HostRoutes
    /\ original_routes = {}
    /\ config = DefaultConfig
    /\ route_pre = route_table
    /\ route_last = [op |-> "none", ok |-> TRUE]
    /\ route_ops = 0
    /\ is_admin = TRUE
    /\ probe = NoProbe
    /\ traffic = {}

NextProxy ==
    \/ \E c \in 1..MaxCommands :
        \/ start_proxy(c)
        \/ stop_proxy(c)
        \/ ProxyStop(c)
        \/ ProxySpawn(c)
        \/ ProxyCheck(c)
    \/ EngineExit

SpecProxy == InitProxy /\ [][NextProxy]_vars

(***************************************************************************)
(* The route controller on its own                                         *)
(***************************************************************************)

\* The number of route operations explored from each initial table.
MaxRouteOps == 4

\* Entries a host can have before the engine first runs.
PreRoutes ==
    {Route(DefaultDest, OrigGateway), Route("8.8.8.8/32", OrigGateway),
     Route("0.0.0.0/1", "vpn"), Route("224.0.0.0/4", "onlink")}

InitRoute ==
    /\ route_table \in SUBSET PreRoutes
    /\ original_routes = {}
    /\ config \in {[DefaultConfig EXCEPT !.strict_route = b] : b \in BOOLEAN}
    /\ route_pre = route_table
    /\ route_last = [op |-> "none", ok |-> TRUE]
    /\ route_ops = 0
    /\ is_admin = TRUE
    /\ probe = NoProbe
    /\ traffic = {}
    /\ InitTun
    /\ InitProxyManager

RouteEnable ==
    /\ route_ops < MaxRouteOps
    /\ route_ops' = route_ops + 1
    /\ \E gw \in DefaultGateways(route_table), fault \in EnableFaults :
        LET res == EnableRoutes(route_table, config.strict_route, gw, fault)
        IN  /\ route_table' = res.rt
            /\ original_routes' = res.backup
            /\ route_pre' = route_table
            /\ route_last' = [op |-> "enable", ok |-> res.ok]
            /\ UNCHANGED <<config, fixedVars, proxyVars, tunVars>>

RouteDisable ==
    LET res == DisableRoutes(route_table, original_routes, config.strict_route)
    IN  /\ route_ops < MaxRouteOps
        /\ route_ops' = route_ops + 1
        /\ route_table' = res.rt
        /\ original_routes' = res.backup
        /\ route_last' = [op |-> IF route_last.op = "enable" /\ route_last.ok
                                 THEN "disable_after_enable" ELSE "disable",
                          ok |-> TRUE]
        /\ UNCHANGED <<config, route_pre, fixedVars, proxyVars, tunVars>>

\* Someone else removes an entry the engine installed.
RouteExternalRemove ==
    /\ route_ops < MaxRouteOps
    /\ route_ops' = route_ops + 1
    /\ \E r \in route_table \ route_pre :
        /\ route_table' = route_table \ {r}
        /\ route_last' = [op |-> "external", ok |-> TRUE]
        /\ UNCHANGED <<original_routes, config, route_pre, fixedVars,
                       proxyVars, tunVars>>

NextRoute == RouteEnable \/ RouteDisable \/ RouteExternalRemove

SpecRoute == InitRoute /\ [][NextRoute]_vars

(***************************************************************************)
(* The classifier on its own                                               *)
(***************************************************************************)

\* should_proxy of the older engine, ruray/src-tauri/src/tun.rs: it has no
\* reserved-range or region test, a shorter port list and no health test.
should_proxy_ruray(dst_ip, dst_port) ==
    IF is_loopback(dst_ip) THEN FALSE
    ELSE IF is_private(dst_ip) THEN FALSE
    ELSE IF is_link_local(dst_ip) THEN FALSE
    ELSE IF is_multicast(dst_ip) THEN FALSE
    ELSE IF is_broadcast(dst_ip) THEN FALSE
    ELSE IF dst_port \in {53, 67, 68, 123, 161, 162} THEN FALSE
    ELSE TRUE

\* Destinations of every class the classifiers tell apart, with the edges of
\* the 172.16.0.0/12 range.
ClassifyIps ==
    {<<127, 0, 0, 1>>, <<10, 0, 0, 1>>, <<172, 16, 0, 1>>,
     <<172, 31, 255, 255>>, <<172, 32, 0, 1>>, <<192, 168, 1, 1>>,
     <<169, 254, 1, 1>>, <<224, 0, 0, 1>>, <<239, 255, 255, 255>>,
     <<255, 255, 255, 255>>, <<0, 1, 2, 3>>, <<240, 0, 0, 1>>,
     <<114, 114, 114, 114>>, <<202, 112, 0, 1>>, PublicIp, DnsIp,
     FakePoolStart}

\* The ports of is_system_port and two others.
ClassifyPorts ==
    {53, 67, 68, 88, 123, 135, 137, 138, 139, 161, 162, 389, 445, 464, 636,
     3702, 5353, 5355, 80, 443}

\* The configuration and FakeIP manager a session can classify under: a
\* FakeIP session has a manager, fresh or with an address given to a.com.
ClassifySessions ==
    {s \in {c \in TunConfigs : IsV4(c.fake_ip_start)}
           \X {<<>>, <<NewFakeIpManager(FakePoolStart, FakePoolEnd)>>,
               <<hijack_allocate(NewFakeIpManager(FakePoolStart, FakePoolEnd),
                                 "a.com").fm>>} :
        s[1].fake_ip => s[2] # <<>>}

\* One packet is classified: by should_proxy of either engine, and by the
\* packet handlers of a session (hijacked, or the should_proxy local).
Classify ==
    /\ probe = NoProbe
    /\ \E ip \in ClassifyIps, port \in ClassifyPorts, healthy \in BOOLEAN,
          proto \in {"tcp", "udp"}, s \in ClassifySessions :
        LET p == Packet(proto, 1, ip, port, "")
        IN  probe' = [fn |-> "classify", pkt |-> p, cfg |-> s[1],
                      healthy |-> healthy,
                      decide |-> should_proxy(ip, port, healthy),
                      decide_ruray |-> should_proxy_ruray(ip, port),
                      hijacked |-> packet_is_hijacked(s[1], p),
                      proxied |-> /\ ~packet_is_hijacked(s[1], p)
                                  /\ packet_should_proxy(s[1], s[2], p,
                                                         healthy)]
    /\ UNCHANGED <<routeVars, config, is_admin, tunVars, proxyVars>>

InitClassify == InitProxy

NextClassify == Classify

SpecClassify == InitClassify /\ [][NextClassify]_vars

(***************************************************************************)
(* The FakeIP pool on its own                                              *)
(***************************************************************************)

\* The number of allocations explored in one session.
MaxAllocs == 4

\* One domain more than the pool has addresses.
AllocDomains == Domains \cup {"b.com"}

\* FakeIpManager::allocate_fake_ip: the domain's address when it has one; an
\* error when the cursor is past the end of the pool; otherwise the cursor's
\* address, and the cursor moves on by one.  Nothing calls it.
allocate_fake_ip(fm, domain) ==
    IF MapHas(fm.domain_to_fake, domain)
    THEN [fm |-> fm, ip |-> MapGet(fm.domain_to_fake, domain), ok |-> TRUE]
    ELSE IF IpLess(fm.end_ip, fm.next_ip)
    THEN [fm |-> fm, ip |-> fm.next_ip, ok |-> FALSE]
    ELSE [fm |-> [fm EXCEPT
                    !.next_ip = IpNext(fm.next_ip),
                    !.domain_to_fake = MapInsert(@, domain, fm.next_ip),
                    !.fake_to_domain = MapInsert(@, fm.next_ip, domain)],
          ip |-> fm.next_ip, ok |-> TRUE]

\* The allocators of the code: the one handle_dns_hijack has inline, which
\* every hijacked query goes through, and allocate_fake_ip.
Allocators == {"handle_dns_hijack", "allocate_fake_ip"}

\* The allocations made so far in this behaviour.
AllocLog == IF probe.fn = "allocate" THEN probe.log ELSE <<>>

\* The first address each domain was given in this behaviour.
AllocFirst == IF probe.fn = "allocate" THEN probe.first ELSE {}

\* An address is allocated for a domain; a session uses one allocator.
Allocate ==
    /\ fake_ip_manager # <<>>
    /\ probe.fn \in {"none", "allocate"}
    /\ Len(AllocLog) < MaxAllocs
    /\ \E via \in Allocators, d \in AllocDomains :
        LET fm == fake_ip_manager[1]
            h  == hijack_allocate(fm, d)
            r  == IF via = "allocate_fake_ip" THEN allocate_fake_ip(fm, d)
                  ELSE [fm |-> h.fm, ip |-> h.ip, ok |-> TRUE]
        IN  /\ probe.fn = "allocate" => probe.via = via
            /\ fake_ip_manager' = <<r.fm>>
            /\ probe' = [fn |-> "allocate", via |-> via, domain |-> d,
                         ok |-> r.ok, ip |-> r.ip,
                         cursor |-> fm.next_ip,
                         log |-> Append(AllocLog, d),
                         before |-> AllocFirst,
                         first |-> IF r.ok /\ ~MapHas(AllocFirst, d)
                                   THEN MapInsert(AllocFirst, d, r.ip)
                                   ELSE AllocFirst]
    /\ UNCHANGED <<routeVars, config, is_admin, proxyVars, running, status,
                   device, dev_holder, packet_handler, connections, tasks,
                   streams, cmd, last, starts, reads, traffic, last_dispatch>>

\* A running FakeIP session whose pool is fresh.
InitFakeIp == InitFlow /\ config.fake_ip

NextFakeIp == Allocate

SpecFakeIp == InitFakeIp /\ [][NextFakeIp]_vars

(***************************************************************************)
(* Response packets on their bytes                                         *)
(***************************************************************************)

\* u16::to_be_bytes of a length or a port cast to u16.
to_be_bytes(n) == <<(n % 65536) \div 256, n % 256>>

\* u16::from_be_bytes.
from_be_bytes(hi, lo) == hi * 256 + lo

RECURSIVE WordSum(_, _)
\* The first loop of calculate_checksum from offset i: the sum of the
\* big-endian 16-bit words, a last odd octet counting as a high one.
WordSum(data, i) ==
    IF i >= Len(data) THEN 0
    ELSE (data[i + 1] * 256)
         + (IF i + 1 < Len(data) THEN data[i + 2] ELSE 0)
         + WordSum(data, i + 2)

RECURSIVE FoldCarries(_)
\* The second loop of calculate_checksum.
FoldCarries(sum) ==
    IF sum \div 65536 = 0 THEN sum
    ELSE FoldCarries((sum % 65536) + (sum \div 65536))

\* A checksum that drops the carries instead of adding them back in.
checksum_without_carries(data) == 65535 - (WordSum(data, 0) % 65536)

\* calculate_checksum: the one's complement of the folded sum.
calculate_checksum(data) == 65535 - FoldCarries(WordSum(data, 0))

\* The IP header of write_response_packet before its checksum is filled in.
ResponseIpHeader(src_ip, dst_ip, len, protocol) ==
    <<69, 0>> \o to_be_bytes(len) \o <<0, 0, 64, 0, 64, protocol, 0, 0>>
              \o dst_ip \o src_ip

\* The packet of write_response_packet with the addresses and the ports in
\* the direction of the request: the packet of a writer that does not turn
\* the flow around.
write_request_packet(src_ip, src_port, dst_ip, dst_port, data, protocol) ==
    LET len == IF protocol = 6 THEN 40 + Len(data) ELSE 28 + Len(data)
        ip0 == ResponseIpHeader(dst_ip, src_ip, len, protocol)
        sum == calculate_checksum(ip0)
        ip  == [ip0 EXCEPT ![11] = sum \div 256, ![12] = sum % 256]
    IN  ip \o to_be_bytes(src_port) \o to_be_bytes(dst_port)
           \o (IF protocol = 6
               THEN <<0, 0, 0, 1, 0, 0, 0, 0, 80, 24, 255, 255, 0, 0, 0, 0>>
               ELSE to_be_bytes(8 + Len(data)) \o <<0, 0>>)
           \o data

\* The packet write_response_packet builds for the flow src -> dst: an IP
\* header of 20 octets from dst to src with its checksum, a TCP header of 20
\* octets (protocol 6) or a UDP header of 8 (any other protocol) from the
\* port of dst to the port of src, then the data.
write_response_packet(src_ip, src_port, dst_ip, dst_port, data, protocol) ==
    LET len == IF protocol = 6 THEN 40 + Len(data) ELSE 28 + Len(data)
        ip0 == ResponseIpHeader(src_ip, dst_ip, len, protocol)
        sum == calculate_checksum(ip0)
        ip  == [ip0 EXCEPT ![11] = sum \div 256, ![12] = sum % 256]
    IN  ip \o to_be_bytes(dst_port) \o to_be_bytes(src_port)
           \o (IF protocol = 6
               THEN <<0, 0, 0, 1, 0, 0, 0, 0, 80, 24, 255, 255, 0, 0, 0, 0>>
               ELSE to_be_bytes(8 + Len(data)) \o <<0, 0>>)
           \o data

\* What the decoder hands to no handler.
Undecoded(why) ==
    [kind |-> why, protocol |-> 0, src_ip |-> <<>>, src_port |-> 0,
     dst_ip |-> <<>>, dst_port |-> 0, data |-> <<>>]

\* The octets of a packet from offset from on.
From(packet, from) == SubSeq(packet, from + 1, Len(packet))

\* The header rules of process_packet_with_response: what it passes to the
\* TCP or the UDP handler, or why it passes nothing.
decode_packet(packet) ==
    IF Len(packet) < 20 THEN Undecoded("too short")
    ELSE IF packet[1] \div 16 # 4 THEN Undecoded("not IPv4")
    ELSE
    LET protocol == packet[10]
        ihl      == (packet[1] % 16) * 4
        found(kind, data) ==
            [kind |-> kind, protocol |-> protocol,
             src_ip |-> SubSeq(packet, 13, 16),
             src_port |-> from_be_bytes(packet[ihl + 1], packet[ihl + 2]),
             dst_ip |-> SubSeq(packet, 17, 20),
             dst_port |-> from_be_bytes(packet[ihl + 3], packet[ihl + 4]),
             data |-> data]
    IN  IF Len(packet) < ihl THEN Undecoded("short header")
        ELSE IF protocol = 6
        THEN IF Len(packet) < ihl + 20 THEN Undecoded("short tcp")
             ELSE LET tcp_data_start == ihl + (packet[ihl + 13] \div 16) * 4
                  IN  IF tcp_data_start <= Len(packet)
                      THEN found("tcp", From(packet, tcp_data_start))
                      ELSE Undecoded("bad tcp offset")
        ELSE IF protocol = 17
        THEN IF Len(packet) < ihl + 8 THEN Undecoded("short udp")
             ELSE found("udp", From(packet, ihl + 8))
        ELSE Undecoded("not tcp or udp")

(***************************************************************************)
(* DNS hijacking on the bytes of a query                                   *)
(***************************************************************************)

\* The number of queries explored in one session.
MaxQueries == 3

\* FakeIP asked for without DNS hijacking, next to the configurations of
\* TunConfigs whose pool start can carry out.
DnsConfigs ==
    {c \in TunConfigs : IsV4(c.fake_ip_start)}
    \cup {[DefaultConfig EXCEPT !.strict_route = FALSE, !.fake_ip = TRUE]}

\* The labels of a name, in ASCII.
DnsLabels(d) ==
    CASE d = "example.com" ->
           <<<<101, 120, 97, 109, 112, 108, 101>>, <<99, 111, 109>>>>
      [] d = "a.com" -> <<<<97>>, <<99, 111, 109>>>>
      [] d = "b.com" -> <<<<98>>, <<99, 111, 109>>>>
      [] OTHER -> <<>>

RECURSIVE DnsQName(_)
\* The wire form of labels: each one after its length, then a zero octet.
DnsQName(labels) ==
    IF labels = <<>> THEN <<0>>
    ELSE <<Len(Head(labels))>> \o Head(labels) \o DnsQName(Tail(labels))

\* A standard query of a resolver: id, flags RD, one question of type A and
\* class IN.
DnsQuery(id, labels) ==
    id \o <<1, 0, 0, 1, 0, 0, 0, 0, 0, 0>> \o DnsQName(labels)
       \o <<0, 1, 0, 1>>

TxIds == {<<18, 52>>, <<0, 1>>}

\* The UDP payloads sent to port 53: queries for the names, a query for the
\* root, a datagram shorter than a DNS header and a query cut inside a label.
DnsPayloads ==
    {DnsQuery(id, DnsLabels(d)) : id \in TxIds, d \in AllocDomains}
    \cup {DnsQuery(<<18, 52>>, <<>>), <<18, 52, 1, 0>>,
          SubSeq(DnsQuery(<<18, 52>>, DnsLabels("a.com")), 1, 16)}

RECURSIVE ParseLabels(_, _, _)
\* The loop of parse_dns_query from offset pos with the labels acc read so
\* far: it ends at a zero length or at the end of the data, and fails on a
\* label that runs past the end.
ParseLabels(data, pos, acc) ==
    IF pos >= Len(data) THEN [ok |-> TRUE, labels |-> acc]
    ELSE LET len == data[pos + 1]
         IN  IF len = 0 THEN [ok |-> TRUE, labels |-> acc]
             ELSE IF pos + 1 + len > Len(data)
             THEN [ok |-> FALSE, labels |-> <<>>]
             ELSE ParseLabels(data, pos + 1 + len,
                              Append(acc,
                                     SubSeq(data, pos + 2, pos + 1 + len)))

\* The String parse_dns_query joins the labels into.
DomainName(labels) ==
    IF \E d \in AllocDomains : DnsLabels(d) = labels
    THEN CHOOSE d \in AllocDomains : DnsLabels(d) = labels
    ELSE "?"

\* parse_dns_query: the name of the question, "" for None.
parse_dns_query(data) ==
    IF Len(data) < 12 THEN ""
    ELSE LET r == ParseLabels(data, 12, <<>>)
         IN  IF ~r.ok \/ r.labels = <<>> THEN "" ELSE DomainName(r.labels)

\* The answer section create_dns_response appends: a pointer to the name at
\* offset 12, type A, class IN, TTL 300, length 4.
AnswerHead == <<192, 12, 0, 1, 0, 1, 0, 0, 1, 44, 0, 4>>

\* create_dns_response: the query with the flags of a response and an answer
\* count of one, followed by one A record of the address.
create_dns_response(query, ip) ==
    IF Len(query) < 12 THEN query
    ELSE [query EXCEPT ![3] = 129, ![4] = 128, ![7] = 0, ![8] = 1]
         \o AnswerHead \o ip

\* The number of queries handled so far in this behaviour.
DnsQueries == IF probe.fn = "dns" THEN probe.n ELSE 0

\* The address of the virtual interface, from which the host's applications
\* send: TunConfig::default().address.
TunAddress == <<192, 168, 55, 1>>

\* The source ports of the resolver's queries.
DnsClientPorts == {49152, 5353}

\* handle_udp_packet_with_response on a datagram to the resolver's port 53:
\* without dns_hijack it is forwarded like any other datagram; with it,
\* handle_dns_hijack answers from the pool when FakeIP is on and the name
\* parses, and otherwise relays the query to the configured server and
\* answers with what the server replied.  Either answer is handed to
\* write_response_packet with the server as the source of the flow and the
\* client as its destination.
DnsDatagram ==
    /\ probe.fn \in {"none", "dns"}
    /\ DnsQueries < MaxQueries
    /\ device # 0
    /\ \E data \in DnsPayloads, sport \in DnsClientPorts :
        LET p        == Packet("udp", sport, DnsIp, 53, parse_dns_query(data))
            hijacked == packet_is_hijacked(config, p)
            pooled   == /\ hijacked
                        /\ config.fake_ip
                        /\ p.domain # ""
                        /\ fake_ip_manager # <<>>
            alloc    == hijack_allocate(fake_ip_manager[1], p.domain)
            response == IF pooled THEN create_dns_response(data, alloc.ip)
                        ELSE create_dns_response(data, PublicIp)
            packet   == write_response_packet(DnsIp, 53, TunAddress, sport,
                                              response, 17)
        IN  /\ fake_ip_manager' =
                 IF pooled THEN <<alloc.fm>> ELSE fake_ip_manager
            /\ probe' =
                 [fn |-> "dns", n |-> DnsQueries + 1, query |-> data,
                  client |-> [ip |-> TunAddress, port |-> sport],
                  domain |-> p.domain, hijacked |-> hijacked,
                  synthesized |-> pooled,
                  ip |-> IF pooled THEN alloc.ip ELSE <<>>,
                  response |-> IF pooled THEN response ELSE <<>>,
                  written |-> IF hijacked THEN decode_packet(packet)
                              ELSE Undecoded("nothing written")]
    /\ UNCHANGED <<routeVars, config, is_admin, proxyVars, running, status,
                   device, dev_holder, packet_handler, connections, tasks,
                   streams, cmd, last, starts, reads, traffic, last_dispatch>>

\* A running session of any configuration, its pool fresh.
InitDns == \E cfg \in DnsConfigs : SessionOf(cfg, {})

NextDns == DnsDatagram

SpecDns == InitDns /\ [][NextDns]_vars

(***************************************************************************)
(* Response packets written and read back                                  *)
(***************************************************************************)

\* The peers of the flows whose responses are written.
CodecIps == {PublicIp, DnsIp, FakePoolStart, <<192, 168, 55, 1>>}

CodecPorts == {53, 443, 49152, 65535}

\* Payloads: none, one octet, octets that look like headers, a DNS answer.
CodecPayloads ==
    {<<>>, <<0>>, <<69, 0, 0, 40>>, <<255, 255, 80, 24, 6, 17, 240>>,
     create_dns_response(DnsQuery(<<18, 52>>, DnsLabels("a.com")),
                         FakePoolStart)}

\* write_response_packet is called for a flow and the device receives the
\* packet; the engine reads it as it reads every packet of the device.
WriteResponse ==
    /\ probe = NoProbe
    /\ device # 0
    /\ dev_holder = 0
    /\ \E protocol \in {6, 17}, src_ip \in CodecIps, dst_ip \in CodecIps,
          src_port \in CodecPorts, dst_port \in CodecPorts,
          data \in CodecPayloads :
        LET packet == write_response_packet(src_ip, src_port, dst_ip,
                                            dst_port, data, protocol)
        IN  probe' = [fn |-> "write", protocol |-> protocol,
                      src_ip |-> src_ip, src_port |-> src_port,
                      dst_ip |-> dst_ip, dst_port |-> dst_port,
                      data |-> data, packet |-> packet,
                      decoded |-> decode_packet(packet)]
    /\ UNCHANGED <<routeVars, config, is_admin, tunVars, proxyVars>>

\* What the device can hand to the packet loop: well-formed TCP and UDP
\* packets, and the same octets with another first octet (version and IHL),
\* another TCP data-offset octet, or cut short.
FirstOctets == {69, 64, 68, 70, 79, 101}

OffsetOctets == {80, 0, 240}

CutLengths == {19, 20, 27, 28, 39, 40, 48}

InputPackets ==
    LET bases == {write_response_packet(PublicIp, 80, TunAddress, 49152,
                                        <<71, 69, 84, 32, 47, 13, 10, 0>>,
                                        protocol) : protocol \in {6, 17}}
        Cut(packet, n) ==
            SubSeq(packet, 1, IF n < Len(packet) THEN n ELSE Len(packet))
    IN  {Cut([[b EXCEPT ![1] = first] EXCEPT ![33] = offset], n) :
            b \in bases, first \in FirstOctets, offset \in OffsetOctets,
            n \in CutLengths}

\* process_packet_with_response on one packet of the device: what it hands
\* to a handler, or why it returns Ok without handing anything.
ProcessPacket ==
    /\ probe = NoProbe
    /\ device # 0
    /\ \E packet \in InputPackets :
        probe' = [fn |-> "process", packet |-> packet,
                  decoded |-> decode_packet(packet)]
    /\ UNCHANGED <<routeVars, config, is_admin, tunVars, proxyVars>>

InitCodec == InitDns

NextCodec == WriteResponse \/ ProcessPacket

SpecCodec == InitCodec /\ [][NextCodec]_vars

(***************************************************************************)
(* A running session under the scheduler                                   *)
(***************************************************************************)

\* One TCP flow to a public destination; the proxy engine stays healthy, so
\* every packet of the flow is classified for the proxy path.
LivePackets == {Packet("tcp", 1, PublicIp, 80, "")}

\* A session of the default configuration with that flow.
InitLive == SessionOf(DefaultConfig, LivePackets)

\* A step the tokio runtime takes by itself: a task that can run is polled,
\* a closure given to spawn_blocking runs, a handler's connection attempt
\* comes to an outcome, a reader with a chunk in hand writes it.
RuntimeStep ==
    \/ \E t \in 1..Len(tasks) :
        \/ LoopTest(t)
        \/ BlockingLock(t)
        \/ HandleProxyNew(t)
        \/ HandleProxyExisting(t)
    \/ \E s \in 1..Len(streams) : ReaderWrite(s)

\* A step that waits for the outside: the device read returns with a packet
\* of the OS or an error, the proxy sends data or closes the stream, the
\* user stops the session.
OutsideStep ==
    \/ \E t \in 1..Len(tasks) : ReadReturns(t)
    \/ \E s \in 1..Len(streams) : ReaderData(s) \/ ReaderEof(s)
    \/ CmdStop

NextLive == RuntimeStep \/ OutsideStep \/ StopDevice

\* The steps of task t and of reader s the runtime takes by itself.
TaskRuns(t) ==
    /\ t <= Len(tasks)
    /\ \/ LoopTest(t)
       \/ BlockingLock(t)
       \/ HandleProxyNew(t)
       \/ HandleProxyExisting(t)

ReaderRuns(s) == s <= Len(streams) /\ ReaderWrite(s)

\* The runtime keeps polling every task that can run, and a lock that is
\* free again and again is eventually given to each task, reader or command
\* that waits for it; nothing obliges the outside to act.
SpecLive ==
    /\ InitLive
    /\ [][NextLive]_vars
    /\ \A t \in 1..MaxStarts : SF_vars(TaskRuns(t))
    /\ \A s \in 1..MaxStreams : SF_vars(ReaderRuns(s))
    /\ SF_vars(StopDevice)

(***************************************************************************)
(* The SOCKS5 exchange of a new proxied flow on its bytes                  *)
(***************************************************************************)

\* What the proxy answers the greeting with before it sends nothing more:
\* no-auth, two other methods, another version, a reply cut short.
MethodReplies == {<<5, 0>>, <<5, 2>>, <<5, 255>>, <<4, 0>>, <<5>>}

\* What the proxy answers the CONNECT request with: success, two failures,
\* another version, a reply cut short.
ConnectReplies ==
    {<<5, 0, 0, 1, 0, 0, 0, 0, 0, 0>>, <<5, 1, 0, 1, 0, 0, 0, 0, 0, 0>>,
     <<5, 5, 0, 1, 0, 0, 0, 0, 0, 0>>, <<4, 0, 0, 1, 0, 0, 0, 0, 0, 0>>,
     <<5, 0, 0>>}

\* What is written to and read from a stream, in order.
Sent(what, bytes) == [dir |-> "sent", what |-> what, bytes |-> bytes]

Received(what, bytes) == [dir |-> "received", what |-> what, bytes |-> bytes]

\* A reply read with read_exact into n octets arrived whole.
reply_has_length(reply, n) == Len(reply) >= n

\* The checks socks5_handshake and socks5_connect make of a reply read with
\* read_exact into n octets: all of it arrived, version 5, second octet 0.
reply_accepted(reply, n) ==
    Len(reply) >= n /\ reply[1] = 5 /\ reply[2] = 0

\* socks5_connect's request: version, CONNECT, reserved, IPv4, the address
\* and the port.
connect_request(dst_ip, dst_port) ==
    <<5, 1, 0, 1>> \o dst_ip \o to_be_bytes(dst_port)

\* handle_tcp_proxy_connection from a connected stream on: the greeting and
\* its reply, the request and its reply, the payload when there is one, and
\* whether the reader is spawned.  fail is the step that returned the error.
socks5_exchange(dst_ip, dst_port, data, method_reply, connect_reply) ==
    LET e1 == <<Sent("greeting", <<5, 1, 0>>),
                Received("method", method_reply)>>
        e2 == e1 \o <<Sent("request", connect_request(dst_ip, dst_port)),
                      Received("connect", connect_reply)>>
        e3 == IF data = <<>> THEN e2 ELSE Append(e2, Sent("payload", data))
    IN  IF ~reply_accepted(method_reply, 2)
        THEN [events |-> e1, fail |-> "handshake", reader |-> FALSE]
        ELSE IF ~reply_accepted(connect_reply, 10)
        THEN [events |-> e2, fail |-> "connect_request", reader |-> FALSE]
        ELSE [events |-> e3, fail |-> "ok", reader |-> TRUE]

\* The payloads of the first packet of a flow: none (a SYN), some octets, and
\* octets that look like a SOCKS5 reply.
SocksPayloads == {<<>>, <<71, 69, 84>>, <<5, 0>>}

\* A new proxied flow's stream is connected and the exchange is made.
SocksExchange ==
    /\ probe = NoProbe
    /\ \E dst_ip \in {PublicIp, FakePoolStart}, dst_port \in {80, 443},
          data \in SocksPayloads, m \in MethodReplies, c \in ConnectReplies :
        LET r == socks5_exchange(dst_ip, dst_port, data, m, c)
        IN  probe' = [fn |-> "socks", dst_ip |-> dst_ip,
                      dst_port |-> dst_port, data |-> data,
                      method_reply |-> m, connect_reply |-> c,
                      events |-> r.events, fail |-> r.fail,
                      reader |-> r.reader]
    /\ UNCHANGED <<routeVars, config, is_admin, tunVars, proxyVars>>

InitSocks == InitLive

NextSocks == SocksExchange

SpecSocks == InitSocks /\ [][NextSocks]_vars

(***************************************************************************)
(* A session that is stopped and started again                             *)
(***************************************************************************)

\* The running session of SpecLive with the commands that end it and begin
\* the next one: the device slot, the connection table and the readers'
\* device handle are those of the one TunManager.
NextRestart ==
    \/ NextLive
    \/ CmdStart
    \/ StartCreate
    \/ StartFlag

SpecRestart == InitLive /\ [][NextRestart]_vars

(***************************************************************************)
(* Calls that overlap                                                      *)
(***************************************************************************)

\* start_tun_mode and toggle_tun_mode call start(), update_tun_config and
\* save_tun_config call update_config(), on the one TunManager of the
\* process; the commands are async and nothing serialises them.  Each call
\* is at its own place, cmd.at[c], with its argument cmd.cfgs[c], the packet
\* task it spawned, cmd.task[c], and, for update_config, whether it is to
\* start the engine again, cmd.restart[c].
Callers == 1..MaxStarts

OverlapCmd ==
    [pc |-> "overlap", op |-> "start", cfg |-> DefaultConfig,
     was_running |-> FALSE, relays |-> {},
     at |-> [c \in Callers |-> "idle"],
     cfgs |-> [c \in Callers |-> DefaultConfig],
     task |-> [c \in Callers |-> 0],
     restart |-> [c \in Callers |-> FALSE]]

CallsReturned ==
    \A c \in Callers : cmd.at[c] \in {"idle", "done", "failed", "updated"}

\* The stop() a call makes when is_running() shows a session.
StopWhenRunning ==
    IF running
    THEN LET res == DisableRoutes(route_table, original_routes,
                                  config.strict_route)
         IN  /\ dev_holder = 0
             /\ StopFlagAndHandler
             /\ device' = 0
             /\ route_table' = res.rt
             /\ original_routes' = res.backup
             /\ route_last' = [op |-> "disable", ok |-> TRUE]
             /\ status' = [status EXCEPT !.is_running = FALSE]
             /\ UNCHANGED <<route_pre, route_ops>>
    ELSE UNCHANGED <<routeVars, running, tasks, packet_handler, device,
                     status>>

\* start(), called by a command or by update_config: the checks and the
\* stop() of a session that is_running() shows.
OverlapBegin(c) ==
    /\ cmd.at[c] \in {"idle", "restart"}
    /\ IF cmd.at[c] = "idle"
       THEN /\ starts < MaxStarts
            /\ starts' = starts + 1
            /\ \E cfg \in {g \in TunConfigs : IsV4(g.fake_ip_start)} :
                cmd' = [cmd EXCEPT !.at[c] = "create", !.cfgs[c] = cfg]
       ELSE /\ cmd' = [cmd EXCEPT !.at[c] = "create"]
            /\ UNCHANGED starts
    /\ StopWhenRunning
    /\ UNCHANGED <<config, fixedVars, proxyVars, dev_holder, fake_ip_manager,
                   connections, streams, last, reads, traffic, last_dispatch>>

\* update_config(), up to its configuration write: was_running is read and
\* a running session is stopped.
OverlapUpdate(c) ==
    /\ cmd.at[c] = "idle"
    /\ starts < MaxStarts
    /\ starts' = starts + 1
    /\ \E cfg \in {g \in TunConfigs : IsV4(g.fake_ip_start)},
          enabled \in BOOLEAN :
        cmd' = [cmd EXCEPT !.at[c] = "write", !.cfgs[c] = cfg,
                           !.restart[c] = running /\ enabled]
    /\ StopWhenRunning
    /\ UNCHANGED <<config, fixedVars, proxyVars, dev_holder, fake_ip_manager,
                   connections, streams, last, reads, traffic, last_dispatch>>

\* update_config(): the configuration write; then start(config) when the
\* engine was running and the new configuration is enabled.
OverlapWrite(c) ==
    /\ cmd.at[c] = "write"
    /\ config' = cmd.cfgs[c]
    /\ cmd' = [cmd EXCEPT !.at[c] = IF cmd.restart[c] THEN "restart"
                                   ELSE "updated"]
    /\ UNCHANGED <<routeVars, fixedVars, proxyVars, running, status, device,
                   dev_holder, packet_handler, fake_ip_manager, connections,
                   tasks, streams, last, starts, reads, traffic,
                   last_dispatch>>

\* start(): the configuration write, tun::create and the device slot.
OverlapCreate(c) ==
    /\ cmd.at[c] = "create"
    /\ config' = cmd.cfgs[c]
    /\ \/ /\ cmd' = [cmd EXCEPT !.at[c] = "failed"]
          /\ last' = Returned("start", FALSE, FALSE, FALSE, 0, {})
          /\ UNCHANGED device
       \/ /\ dev_holder = 0
          /\ device' = c
          /\ cmd' = [cmd EXCEPT !.at[c] = "routes"]
          /\ UNCHANGED last
    /\ UNCHANGED <<routeVars, fixedVars, proxyVars, running, status,
                   dev_holder, packet_handler, fake_ip_manager, connections,
                   tasks, streams, starts, reads, traffic, last_dispatch>>

\* start(): the FakeIP manager, the routes, the packet task, whose handle
\* replaces the one held, and the status.
OverlapSpawn(c) ==
    /\ cmd.at[c] = "routes"
    /\ \E gw \in DefaultGateways(route_table) :
        LET cfg == cmd.cfgs[c]
            res == EnableRoutes(route_table, cfg.strict_route, gw, "none")
        IN  /\ fake_ip_manager' =
                 IF cfg.fake_ip
                 THEN <<NewFakeIpManager(cfg.fake_ip_start, cfg.fake_ip_end)>>
                 ELSE fake_ip_manager
            /\ route_table' = res.rt
            /\ original_routes' = res.backup
            /\ route_pre' = route_table
            /\ route_last' = [op |-> "enable", ok |-> res.ok]
            /\ IF ~res.ok
               THEN /\ cmd' = [cmd EXCEPT !.at[c] = "failed"]
                    /\ last' = Returned("start", FALSE, TRUE, FALSE, 0, {})
                    /\ UNCHANGED <<tasks, packet_handler, status>>
               ELSE /\ tasks' = Append(tasks, NewTask)
                    /\ packet_handler' = Len(tasks) + 1
                    /\ status' = [is_running |-> TRUE]
                    /\ cmd' = [cmd EXCEPT !.at[c] = "flag",
                                           !.task[c] = Len(tasks) + 1]
                    /\ UNCHANGED last
    /\ UNCHANGED <<route_ops, config, fixedVars, proxyVars, running, device,
                   dev_holder, connections, streams, starts, reads, traffic,
                   last_dispatch>>

\* start(): running.store(true) and the return.
OverlapFlag(c) ==
    /\ cmd.at[c] = "flag"
    /\ running' = TRUE
    /\ cmd' = [cmd EXCEPT !.at[c] = "done"]
    /\ last' = Returned("start", TRUE, TRUE, FALSE, packet_handler, {})
    /\ UNCHANGED <<routeVars, config, fixedVars, proxyVars, status, device,
                   dev_holder, packet_handler, fake_ip_manager, connections,
                   tasks, streams, starts, reads, traffic, last_dispatch>>

\* The stopped engine of an administrator, no call begun.
InitOverlap ==
    /\ running = FALSE
    /\ status = [is_running |-> FALSE]
    /\ device = 0
    /\ dev_holder = 0
    /\ packet_handler = 0
    /\ fake_ip_manager = <<>>
    /\ connections = {}
    /\ tasks = <<>>
    /\ streams = <<>>
    /\ cmd = OverlapCmd
    /\ last = Returned("none", TRUE, FALSE, FALSE, 0, {})
    /\ starts = 0
    /\ reads = 0
    /\ last_dispatch = NoDispatch
    /\ route_table = HostRoutes
    /\ original_routes = {}
    /\ config = DefaultConfig
    /\ route_pre = route_table
    /\ route_last = [op |-> "none", ok |-> TRUE]
    /\ route_ops = 0
    /\ is_admin = TRUE
    /\ probe = NoProbe
    /\ traffic = {}
    /\ InitProxyManager

NextOverlap ==
    \/ \E c \in Callers :
        \/ OverlapBegin(c)
        \/ OverlapUpdate(c)
        \/ OverlapWrite(c)
        \/ OverlapCreate(c)
        \/ OverlapSpawn(c)
        \/ OverlapFlag(c)
    \/ \E t \in 1..Len(tasks) :
        \/ LoopTest(t)
        \/ BlockingLock(t)
        \/ ReadReturns(t)

SpecOverlap == InitOverlap /\ [][NextOverlap]_vars

(***************************************************************************)
(* ProxyManager.start on one manager, with TUN mode                        *)
(***************************************************************************)

\* One manager and the calls of start() on it, one after the other.  The
\* record keeps the call's place, the manager's fields, whether the call
\* that returned was Ok and whether it turned TUN mode on.
ManagerIdle ==
    [pc |-> "idle", op |-> "none", mgr |-> NewProxyManager, ok |-> TRUE,
     tun_on |-> FALSE]

\* start(): self.stop() first.  A running TUN session is stopped, the child
\* held is killed with every process named xray, start_time and
\* current_server are cleared.
ManagerStop ==
    LET res == DisableRoutes(route_table, original_routes,
                             config.strict_route)
    IN  /\ pm[1].pc = "idle"
        /\ spawned < MaxSpawns
        /\ procs' = {}
        /\ pm' = [pm EXCEPT ![1] = [ManagerIdle EXCEPT !.pc = "tun",
                                                       !.op = "start"]]
        /\ IF running
           THEN /\ StopFlagAndHandler
                /\ device' = 0
                /\ route_table' = res.rt
                /\ original_routes' = res.backup
                /\ route_last' = [op |-> "disable", ok |-> TRUE]
                /\ status' = [status EXCEPT !.is_running = FALSE]
                /\ UNCHANGED <<route_pre, route_ops>>
           ELSE UNCHANGED <<routeVars, running, tasks, packet_handler,
                            device, status>>
        /\ UNCHANGED <<config, fixedVars, dev_holder, fake_ip_manager,
                       connections, streams, cmd, last, starts, reads,
                       traffic, last_dispatch, spawned>>

\* start(): with tun_enabled in the saved application configuration,
\* TunManager.start(tun_config); its error is only printed.
ManagerTun ==
    /\ pm[1].pc = "tun"
    /\ \E tun_enabled \in BOOLEAN, started \in BOOLEAN,
          cfg \in {g \in TunConfigs : IsV4(g.fake_ip_start)} :
        LET res == EnableRoutes(route_table, cfg.strict_route, OrigGateway,
                                "none")
        IN  IF tun_enabled /\ started /\ starts < MaxStarts
            THEN /\ config' = cfg
                 /\ device' = starts + 1
                 /\ starts' = starts + 1
                 /\ fake_ip_manager' =
                      IF cfg.fake_ip
                      THEN <<NewFakeIpManager(cfg.fake_ip_start,
                                              cfg.fake_ip_end)>>
                      ELSE fake_ip_manager
                 /\ route_table' = res.rt
                 /\ original_routes' = res.backup
                 /\ route_pre' = route_table
                 /\ route_last' = [op |-> "enable", ok |-> TRUE]
                 /\ tasks' = Append(tasks, NewTask)
                 /\ packet_handler' = Len(tasks) + 1
                 /\ status' = [is_running |-> TRUE]
                 /\ running' = TRUE
                 /\ pm' = [pm EXCEPT ![1].pc = "spawn", ![1].tun_on = TRUE]
                 /\ UNCHANGED route_ops
            ELSE /\ pm' = [pm EXCEPT ![1].pc = "spawn"]
                 /\ UNCHANGED <<routeVars, config, device, starts,
                                fake_ip_manager, tasks, packet_handler,
                                status, running>>
    /\ UNCHANGED <<fixedVars, dev_holder, connections, streams, cmd, last,
                   reads, traffic, last_dispatch, procs, spawned>>

\* start(): the executable is looked for and spawned; a missing executable
\* or a failed spawn is returned, otherwise the child, the start time and
\* the server are recorded.
ManagerSpawn ==
    /\ pm[1].pc = "spawn"
    /\ \E outcome \in {"ok", "missing", "spawn_failed"} :
        IF outcome = "ok"
        THEN /\ spawned' = spawned + 1
             /\ procs' = procs \cup {spawned + 1}
             /\ pm' = [pm EXCEPT ![1].pc = "grace",
                                 ![1].mgr = [process |-> spawned + 1,
                                             start_time |-> TRUE,
                                             current_server |-> TRUE]]
        ELSE /\ pm' = [pm EXCEPT ![1].pc = "idle", ![1].ok = FALSE]
             /\ UNCHANGED <<procs, spawned>>
    /\ UNCHANGED <<routeVars, config, fixedVars, tunVars>>

\* start() after the 500 ms sleep: try_wait on the child.  A child that has
\* exited is taken out of the process slot and the error is returned.
ManagerCheck ==
    /\ pm[1].pc = "grace"
    /\ pm' = IF pm[1].mgr.process \in procs
             THEN [pm EXCEPT ![1].pc = "idle", ![1].ok = TRUE]
             ELSE [pm EXCEPT ![1].pc = "idle", ![1].ok = FALSE,
                             ![1].mgr.process = 0]
    /\ UNCHANGED <<routeVars, config, fixedVars, tunVars, procs, spawned>>

InitManager ==
    /\ InitTun
    /\ procs = {}
    /\ pm = [c \in 1..MaxCommands |-> ManagerIdle]
    /\ spawned = 0
    /\ route_table = HostRoutes
    /\ original_routes = {}
    /\ config = DefaultConfig
    /\ route_pre = route_table
    /\ route_last = [op |-> "none", ok |-> TRUE]
    /\ route_ops = 0
    /\ is_admin = TRUE
    /\ probe = NoProbe
    /\ traffic = {}

NextManager ==
    \/ ManagerStop
    \/ ManagerTun
    \/ ManagerSpawn
    \/ ManagerCheck
    \/ EngineExit

SpecManager == InitManager /\ [][NextManager]_vars

(***************************************************************************)
(* The claims                                                              *)
(***************************************************************************)

\* C1: for every initial route table, set_system_route(true) followed by
\* set_system_route(false) leaves the route table equal, as a set of
\* entries, to the table that existed before the enable.
C1_DisableRestoresTable ==
    route_last.op = "disable_after_enable" => route_table = route_pre

\* C2: when a route-add command fails during set_system_route(true), every
\* route that enable call had added is removed again by the time the error
\* is returned.
C2_FailedEnableRolledBack ==
    (route_last.op = "enable" /\ ~route_last.ok)
        => route_table \ route_pre = {}

\* C3: when start returns an error after the TUN device was created, the
\* device slot is empty again, no route points at the TUN interface and no
\* packet-processing task exists.
C3_FailedStartLeavesNothing ==
    (cmd.pc = "idle" /\ last.op = "start" /\ ~last.ok /\ last.created)
        => (device = 0 /\ TunRoutes(route_table) = {} /\ LiveTasks = {})

\* C4: once a stop of a running session has returned Ok, by stop(), by
\* stop_sync() or by the window's close handler, neither split route nor the
\* default route points at the TUN gateway.
C4_StopDisablesRouting ==
    (cmd.pc = "idle" /\ last.op \in {"stop", "stop_sync", "close"}
     /\ last.was_running /\ last.ok)
        => ~\E r \in TunRoutes(route_table) :
               r.dest \in SplitRoutes \cup {DefaultDest}

\* C5: once a stop() that was called with flows in mid-relay has returned,
\* every one of those flows' relay tasks has ended and the connection table
\* is empty.
C5_StopCancelsRelays ==
    (cmd.pc = "idle" /\ last.op = "stop" /\ last.was_running
     /\ last.relays # {})
        => (last.relays \cap LiveRelays = {} /\ connections = {})

\* C6: after a start that was called while a session was running has
\* returned Ok, there is exactly one live device and exactly one live
\* packet-processing task.
C6_RestartLeavesOneSession ==
    (cmd.pc = "idle" /\ last.op = "start" /\ last.ok /\ last.was_running)
        => (device # 0 /\ Cardinality(LiveTasks) = 1)

\* C7: at most one engine process spawned by the supervisor is alive at any
\* time, and one that is alive is the process held in a tracked handle.
C7_SingleTrackedEngine ==
    Cardinality(procs) <= 1 /\ procs \subseteq TrackedHandles

\* C8: a packet is dispatched to the proxy path only when is_proxy_running()
\* answered true; otherwise the handlers take the direct path, also for a
\* FakeIP destination with a known domain.
C8_ProxyOnlyWhenHealthy ==
    last_dispatch.path = "proxy" => last_dispatch.healthy

\* C9: with the proxy engine unhealthy, the payload of a TCP packet for a
\* public destination on port 80 is sent over a direct stream and the packet
\* is not failed.
C9_UnhealthyFallsBackToDirect ==
    (last_dispatch.pkt.proto = "tcp" /\ last_dispatch.pkt.dst = PublicIp
     /\ last_dispatch.pkt.dport = 80 /\ ~last_dispatch.healthy)
        => (last_dispatch.ok /\ last_dispatch.sent = "direct")

\* C10: when the connect to the proxy endpoint, the SOCKS5 handshake or the
\* SOCKS5 CONNECT request fails for a flow, a direct connection to the
\* flow's destination is attempted instead of the failure being returned.
C10_RelayFailureFallsBackToDirect ==
    last_dispatch.fail \in {"connect", "handshake", "connect_request"}
        => (last_dispatch.ok /\ "direct" \in last_dispatch.attempts)

\* The handler of task t waits for the upstream DNS server: the recv_from of
\* handle_dns_hijack has no timeout, so the wait ends only with a reply.
AwaitsUpstream(t) ==
    /\ tasks[t].st = "handling"
    /\ packet_is_hijacked(config, tasks[t].pkt)
    /\ ~(config.fake_ip /\ tasks[t].pkt.domain # "")

\* A live packet task takes a step of its read loop.
ReadLoopStep ==
    \E t \in LiveTasks : LoopTest(t) \/ BlockingLock(t) \/ ReadReturns(t)

\* C11: while the handling of one flow's packet is suspended in a running
\* session, here waiting for an upstream DNS reply, packets of other flows
\* are still read: some live packet task can take a step of its read loop.
C11_StalledFlowBlocksNoOther ==
    \A t \in LiveTasks :
        (running /\ device # 0 /\ AwaitsUpstream(t)) => ENABLED ReadLoopStep

\* A destination the spec has bypassed for every port: loopback, RFC1918
\* private, link-local, multicast, broadcast, 0.0.0.0/8 and 240.0.0.0/4.
BypassAddress(ip) ==
    \/ is_loopback(ip) \/ is_private(ip) \/ is_link_local(ip)
    \/ is_multicast(ip) \/ is_broadcast(ip)
    \/ ip[1] = 0
    \/ ip[1] >= 240

\* C12: for every destination address that is loopback, private, link-local,
\* multicast, broadcast or reserved, and every port, should_proxy (of either
\* engine) returns false.
C12_LocalAddressesBypass ==
    (probe.fn = "classify" /\ BypassAddress(probe.pkt.dst))
        => (~probe.decide /\ ~probe.decide_ruray)

\* C13: a packet whose destination port is in the system-service set is
\* decided Bypass by the packet handlers for every destination address: it
\* is never handed to the proxy path.
C13_SystemPortsBypass ==
    (probe.fn = "classify" /\ is_system_port(probe.pkt.dport))
        => ~probe.proxied

\* C14: after any sequence of allocations within one session, no two
\* distinct domains are mapped to the same fake address.
C14_NoTwoDomainsShareAddress ==
    probe.fn = "allocate" =>
        \A e1, e2 \in fake_ip_manager[1].domain_to_fake :
            e1[2] = e2[2] => e1[1] = e2[1]

\* The addresses of the pool [start, end].
RECURSIVE PoolIps(_, _)
PoolIps(start, end) ==
    IF start = end THEN {end} ELSE {start} \cup PoolIps(IpNext(start), end)

\* Before the latest allocation every address of the pool had been given out
\* and the domain asked for had none.
PoolWasExhausted ==
    /\ probe.fn = "allocate"
    /\ ~MapHas(probe.before, probe.domain)
    /\ PoolIps(fake_ip_manager[1].start_ip, fake_ip_manager[1].end_ip)
           \subseteq {e[2] : e \in probe.before}

\* C15: once every address of the pool has been handed out, an allocation
\* for a further new domain fails, and no allocation moves the cursor back.
C15_ExhaustionIsAnError ==
    /\ PoolWasExhausted => ~probe.ok
    /\ probe.fn = "allocate"
           => IpLeq(probe.cursor, fake_ip_manager[1].next_ip)

\* C16: an allocation for a domain returns the address the domain was given
\* first, whatever was allocated for other domains in between.
C16_SameDomainSameAddress ==
    (probe.fn = "allocate" /\ probe.ok /\ MapHas(probe.before, probe.domain))
        => probe.ip = MapGet(probe.before, probe.domain)

\* A domain is asked for again after another domain was given an address.
C16_Witness ==
    /\ probe.fn = "allocate"
    /\ probe.ok
    /\ Len(probe.log) >= 3
    /\ probe.log[1] = probe.domain
    /\ probe.log[2] # probe.domain
    /\ MapHas(probe.before, probe.log[2])

\* The last n octets of a sequence.
LastOctets(seq, n) ==
    IF Len(seq) < n THEN <<>> ELSE SubSeq(seq, Len(seq) - n + 1, Len(seq))

\* The first query of a FakeIP session is one for example.com.
FirstQueryForExample ==
    /\ probe.fn = "dns"
    /\ probe.n = 1
    /\ config.fake_ip
    /\ probe.query \in {DnsQuery(id, DnsLabels("example.com")) : id \in TxIds}

\* C17: in a session configured with fake_ip = true and a fresh pool starting
\* at 198.18.0.1, the first UDP query to port 53 for example.com is answered
\* with a synthesized response: the allocator returns 198.18.0.1 and the four
\* address octets of the appended A record are 198.18.0.1.
C17_FirstQueryGetsPoolStart ==
    FirstQueryForExample =>
        /\ probe.synthesized
        /\ probe.ip = <<198, 18, 0, 1>>
        /\ LastOctets(probe.response, 4) = <<198, 18, 0, 1>>

\* C18: decoding the packet write_response_packet builds, with the header
\* rules of process_packet_with_response (IHL, TCP data offset, 8-octet UDP
\* header), gives the protocol, the addresses and ports of the flow in the
\* opposite direction and exactly the payload, for TCP and for UDP.
C18_ResponseRoundTrip ==
    probe.fn = "write" =>
        /\ probe.decoded.kind = (IF probe.protocol = 6 THEN "tcp" ELSE "udp")
        /\ probe.decoded.protocol = probe.protocol
        /\ probe.decoded.src_ip = probe.dst_ip
        /\ probe.decoded.src_port = probe.dst_port
        /\ probe.decoded.dst_ip = probe.src_ip
        /\ probe.decoded.dst_port = probe.src_port
        /\ probe.decoded.data = probe.data

\* A TCP response with a payload, between distinct addresses and ports, has
\* been written and decoded.
C18_Witness ==
    /\ probe.fn = "write"
    /\ probe.protocol = 6
    /\ probe.data # <<>>
    /\ probe.src_ip # probe.dst_ip
    /\ probe.src_port # probe.dst_port
    /\ probe.decoded.kind = "tcp"

\* What route_last records for a set_system_route(false).
DisableOps == {"disable", "disable_after_enable"}

\* C19: set_system_route(false) returns Ok whenever it is called, also after
\* another disable or after someone removed routes, and a disable that
\* follows a disable leaves the table as the first one left it.
C19_DisableIdempotent ==
    [][(route_ops' # route_ops /\ route_last'.op \in DisableOps) =>
          /\ route_last'.ok
          /\ route_last.op \in DisableOps => route_table' = route_table]_vars

\* A step in which start() is called by a process without privileges.
UnprivilegedStart == ~is_admin /\ cmd.pc = "idle" /\ starts' # starts

\* C20: without administrator privileges start returns the privilege error
\* before a device is created and before a route command runs: the call
\* returns at once, and the device, the route table and the backup are what
\* they were.
C20_NoPrivilegeNoSideEffect ==
    [][UnprivilegedStart =>
          /\ cmd'.pc = "idle"
          /\ last'.op = "start" /\ ~last'.ok /\ last'.err = "privilege"
          /\ ~last'.created
          /\ UNCHANGED <<device, route_table, original_routes>>]_vars

\* start has returned to a process without privileges.
C20_Witness ==
    /\ ~is_admin
    /\ last.op = "start"
    /\ last.err = "privilege"
    /\ device = 0
    /\ route_table = HostRoutes

\* A step of start() that spawns the packet-processing task.
SpawnsPacketTask == Len(tasks') > Len(tasks)

\* The step of stop() in which set_system_route(false) runs.
StopDisablesRoutes == cmd.pc = "stop_dev" /\ cmd'.pc # "stop_dev"

\* C21: start() spawns the packet loop only after set_system_route(true) has
\* returned Ok; stop() begins set_system_route(false) only after the packet
\* task and every relay task have been cancelled and the device is closed.
C21_RoutesBracketPacketLoop ==
    [][/\ SpawnsPacketTask => (route_last'.op = "enable" /\ route_last'.ok)
       /\ StopDisablesRoutes =>
            (LiveTasks = {} /\ LiveRelays = {} /\ device' = 0)]_vars

\* Stream s has ended (end of stream or a read error) in a running session.
StreamClosed(s) ==
    /\ s <= Len(streams)
    /\ streams[s].reader = "done"
    /\ running /\ device # 0

\* The connection table still holds stream s in its flow's entry.
EntryHolds(s) ==
    /\ s <= Len(streams)
    /\ ProxyStream(connections, streams[s].flow) = s

\* C22: when a flow's proxy stream reaches EOF or fails with an I/O error,
\* the flow's entry is removed from the connection table, without a further
\* packet of the flow having to arrive.
C22_ClosedStreamLeavesTable ==
    \A s \in 1..MaxStreams : StreamClosed(s) ~> ~EntryHolds(s)

\* The place of the first event of that kind in the exchange, 0 for none.
EventAt(dir, what) ==
    LET is == {i \in 1..Len(probe.events) :
                 probe.events[i].dir = dir /\ probe.events[i].what = what}
    IN  IF is = {} THEN 0 ELSE CHOOSE i \in is : \A j \in is : i <= j

\* The replies the spec accepts: [0x05, 0x00], then ten octets whose second
\* is 0x00.
GoodReplies ==
    /\ probe.method_reply = <<5, 0>>
    /\ Len(probe.connect_reply) = 10
    /\ probe.connect_reply[2] = 0

\* C23: on a new proxied flow the payload is written to the stream only
\* after the method reply [0x05, 0x00] and a 10-octet CONNECT reply whose
\* second octet is 0x00 were received; when either reply differs the attempt
\* ends with an error, no payload is sent and no reader is started.
C23_PayloadAfterBothReplies ==
    probe.fn = "socks" =>
        /\ EventAt("sent", "payload") # 0 =>
             /\ GoodReplies
             /\ 0 < EventAt("received", "method")
             /\ EventAt("received", "method") < EventAt("received", "connect")
             /\ EventAt("received", "connect") < EventAt("sent", "payload")
        /\ ~GoodReplies =>
             /\ probe.fail # "ok"
             /\ EventAt("sent", "payload") = 0
             /\ ~probe.reader

\* An exchange with both replies good has sent its payload as the fifth
\* event and started the reader.
C23_Witness ==
    /\ probe.fn = "socks"
    /\ probe.data # <<>>
    /\ GoodReplies
    /\ EventAt("sent", "payload") = 5
    /\ probe.reader

\* C24: every DNS response the hijack writes to the device, synthesized or
\* relayed, is a UDP packet addressed to the client's source address and
\* port, from the DNS server's address and port 53.
C24_DnsAnswerGoesToClient ==
    (probe.fn = "dns" /\ probe.hijacked) =>
        /\ probe.written.kind = "udp"
        /\ probe.written.dst_ip = probe.client.ip
        /\ probe.written.dst_port = probe.client.port
        /\ probe.written.src_ip = DnsIp
        /\ probe.written.src_port = 53

\* The host's own default routes: 0.0.0.0/0 through another gateway than the
\* virtual interface.
OwnDefaultRoutes(t) == {r \in t : r.dest = DefaultDest /\ r.gw # TunGateway}

\* C25: enabling and disabling TUN routing never deletes the host's original
\* default route, and captures the traffic with the two half-space routes
\* only: no default route through the virtual interface is added.
C25_DefaultRouteUntouched ==
    [][(route_ops' # route_ops /\ route_last'.op # "external") =>
          /\ OwnDefaultRoutes(route_table) \subseteq route_table'
          /\ Route(DefaultDest, TunGateway) \notin route_table']_vars

\* C26: whenever no start or stop call is in progress, the stored backup
\* original_routes is non-empty if and only if routes through the virtual
\* interface are installed.
C26_BackupIffRoutesInstalled ==
    cmd.pc = "idle" =>
        (original_routes # {} <=> TunRoutes(route_table) # {})

\* Task t is handling a TCP packet of a flow whose entry holds a stream.
HandlesEstablished(t) ==
    /\ t <= Len(tasks)
    /\ tasks[t].st = "handling"
    /\ tasks[t].pkt.proto = "tcp"
    /\ ProxyStream(connections, ConnKey(tasks[t].pkt)) # 0

\* Task t is not handling a packet: the handler has returned, or the task
\* was ended by a stop.
HandlerReturned(t) == t <= Len(tasks) /\ tasks[t].st # "handling"

\* C27: on an established proxied flow every later payload packet is
\* eventually written to the flow's stream, also when the proxy sends no
\* data in the meantime: the handler is not left waiting for the stream lock
\* that the flow's reader holds during its pending read.
C27_EstablishedFlowKeepsForwarding ==
    \A t \in 1..MaxStarts : HandlesEstablished(t) ~> HandlerReturned(t)

\* Reader s holds a chunk it read from its stream and has not written yet.
HoldsChunk(s) == s <= Len(streams) /\ streams[s].reader = "got_data"

\* C28: every response chunk read from a proxy stream is eventually written
\* to the device, also when no further packet arrives from the OS: the write
\* does not have to wait for a blocking device read to return.
C28_ChunkReachesDevice ==
    \A s \in 1..MaxStreams : HoldsChunk(s) ~> ~HoldsChunk(s)

\* C30: stop() returns within bounded time, also when the packet loop's
\* blocking device read is in progress and no packet arrives.
C30_StopReturns ==
    (cmd.pc = "stop_dev") ~> (cmd.pc = "idle")

\* C29: whenever start() has returned Ok, the packet-processing task that
\* start spawned is still running its read loop: it has not ended at a test
\* of the running flag made before start() set the flag.
C29_SpawnedTaskSurvivesStart ==
    (cmd.pc = "idle" /\ last.op = "start" /\ last.ok)
        => last.task \in LiveTasks

\* C31: for every flow key at most one proxy stream is live (its reader has
\* not ended), and every live proxy stream is the one recorded in the
\* connection-table entry of its flow, also after a failed write on an
\* existing stream forced a reconnect.
LiveStreamsOf(key) == {s \in LiveRelays : streams[s].flow = key}

C31_OneRecordedStreamPerFlow ==
    \A s \in LiveRelays :
        /\ ProxyStream(connections, streams[s].flow) = s
        /\ LiveStreamsOf(streams[s].flow) = {s}

\* A reader that was alive when the earlier session was ended writes the
\* chunk it holds into the device of the session start() has opened since.
OldReaderWrites ==
    /\ cmd.pc = "idle" /\ last.op = "start" /\ last.ok
    /\ device # 0
    /\ \E s \in last.relays :
        /\ streams[s].reader = "got_data"
        /\ streams'[s].reader = "reading"

\* C32: flow state does not outlive its device session: after stop() and a
\* later start(), no response reader of the earlier session is still used,
\* so no response of an old flow is written into the new session's device.
C32_NoOldResponseInNewSession == [][~OldReaderWrites]_vars

\* C33: whenever no start or stop call is in progress, status.is_running
\* equals the running flag, and both are true exactly when the device slot
\* holds a device and a packet-processing task is held; also after a call
\* that returned an error.
C33_StatusFlagDeviceAgree ==
    cmd.pc = "idle" =>
        /\ status.is_running = running
        /\ running <=> (device # 0 /\ packet_handler # 0)

\* The session that runs is the one a single call made: the device held,
\* the stored configuration and the packet task held are those of one call
\* that returned Ok.
SessionOfOneCall ==
    \E c \in Callers :
        /\ cmd.at[c] = "done"
        /\ device = c
        /\ config = cmd.cfgs[c]
        /\ packet_handler = cmd.task[c]

\* C34: when start calls overlap, the result is that of some sequential
\* order of them: once the calls have returned at most one packet-processing
\* task is live, it is the one whose handle is held (no handle was replaced
\* without its task having been aborted), and a running session is the one
\* that one of the calls made.
C34_OverlappingStartsSerialize ==
    CallsReturned =>
        /\ Cardinality(LiveTasks) <= 1
        /\ \A t \in LiveTasks : t = packet_handler
        /\ running => SessionOfOneCall

\* ProxyManager.start has returned an error.
ManagerStartFailed ==
    pm[1].pc = "idle" /\ pm[1].op = "start" /\ ~pm[1].ok

\* C35: when ProxyManager.start returns an error (executable missing, spawn
\* failure, or the engine exited within the grace period) it leaves no
\* session state behind: TUN mode that this call turned on is not left
\* running, and no process handle, start time or server id stays recorded.
C35_FailedStartLeavesNoSession ==
    ManagerStartFailed =>
        /\ pm[1].tun_on => ~running
        /\ pm[1].mgr = NewProxyManager

\* Task t handles a TCP packet whose destination is a FakeIP address with a
\* mapped domain: the flow goes to the proxy.
HandlesFakeIpFlow(t) ==
    /\ tasks[t].st = "handling"
    /\ tasks[t].pkt.proto = "tcp"
    /\ target_domain(config, fake_ip_manager, tasks[t].pkt.dst) # ""

\* The address octets of the CONNECT request sent for the packet of task t.
ConnectTarget(t) ==
    SubSeq(connect_request(target_ip(config, fake_ip_manager,
                                     tasks[t].pkt.dst),
                           tasks[t].pkt.dport), 5, 8)

\* C36: for a TCP flow whose destination is a FakeIP address, the SOCKS5
\* CONNECT request names the real destination of the mapped domain: an
\* address of the FakeIP pool is never sent as the CONNECT target.
C36_ConnectNamesRealDestination ==
    \A t \in 1..Len(tasks) :
        HandlesFakeIpFlow(t)
            => ~is_fake_ip(fake_ip_manager[1], ConnectTarget(t))

\* Reader s writes the chunk it holds into the device.
WritesChunk(s) ==
    /\ s <= Len(streams)
    /\ streams[s].reader = "got_data"
    /\ streams'[s].reader = "reading"

\* C37: for each flow, payloads are written to the flow's proxy stream in
\* the order in which their packets were read from the device, and response
\* chunks are written to the device in the order in which they were read
\* from the proxy: a chunk that is written is the earliest chunk of its flow
\* that was read and is not written yet.
C37_ChunksWrittenInReadOrder ==
    [][\A s \in 1..MaxStreams : WritesChunk(s) => streams[s].seq = 1]_vars

\* The header rules the packet loop is to apply: version 4, an IHL of at
\* least 5 words, and a length that covers the declared IP header and the
\* transport header (20 octets and the declared data offset for TCP, 8
\* octets for UDP).
WellFormedPacket(packet) ==
    /\ Len(packet) >= 20
    /\ packet[1] \div 16 = 4
    /\ packet[1] % 16 >= 5
    /\ LET ihl == (packet[1] % 16) * 4
       IN  /\ Len(packet) >= ihl
           /\ packet[10] = 6 =>
                /\ Len(packet) >= ihl + 20
                /\ Len(packet) >= ihl + (packet[ihl + 13] \div 16) * 4
           /\ packet[10] = 17 => Len(packet) >= ihl + 8

\* C38: a packet is classified and handed to a handler only if it is well
\* formed (version 4, IHL at least 5, length covering the IP header and the
\* minimum transport header); every other packet is dropped: processing
\* returns Ok without handing it on.
C38_OnlyWellFormedRelayed ==
    (probe.fn = "process" /\ probe.decoded.kind \in {"tcp", "udp"})
        => WellFormedPacket(probe.packet)

\* The 16-bit words of an IPv4 header of 20 octets, added as numbers.
HeaderWords(packet) ==
    LET w(i) == packet[2 * i - 1] * 256 + packet[2 * i]
    IN  w(1) + w(2) + w(3) + w(4) + w(5) + w(6) + w(7) + w(8) + w(9) + w(10)

\* The ones'-complement sum of the header: addition modulo 0xFFFF, in which
\* a sum that is not zero and is a multiple of 0xFFFF reads 0xFFFF.
HeaderOnesComplementSum(packet) ==
    IF HeaderWords(packet) = 0 THEN 0
    ELSE ((HeaderWords(packet) - 1) % 65535) + 1

\* C39: for every packet write_response_packet builds, the 16-bit
\* ones'-complement sum over the 20 header octets, checksum included, is
\* 0xFFFF, the total-length field is the packet's length in octets, the TTL
\* is 64 and the header has no options (version 4, IHL 5).
C39_ResponseHeaderValid ==
    probe.fn = "write" =>
        /\ HeaderOnesComplementSum(probe.packet) = 65535
        /\ from_be_bytes(probe.packet[3], probe.packet[4])
             = Len(probe.packet)
        /\ probe.packet[9] = 64
        /\ probe.packet[1] = 69

\* A TCP response with a payload has been built whose header words, added
\* without the checksum, carry out of 16 bits.
C39_Witness ==
    /\ probe.fn = "write"
    /\ probe.protocol = 6
    /\ probe.data # <<>>
    /\ HeaderWords(probe.packet)
         - from_be_bytes(probe.packet[11], probe.packet[12]) > 65535

\* C40: the stored TunConfig never changes while a device session is
\* running: every operation that replaces it (start, update_config) first
\* brings the engine to the stopped state, and update_config on a running
\* engine stops, then writes the configuration, then starts.
C40_ConfigFixedWhileRunning ==
    [][(running /\ running') => config' = config]_vars

====
